---- MODULE Spec2Model ----
(***************************************************************************)
(* A model of azure_test_report_processor.py: the version-string cleaner,  *)
(* the environment extraction (embedded JSON blob, HTML-table fallback),   *)
(* the test-result extraction, the index-document builder and the          *)
(* execute() pipeline around them.                                         *)
(*                                                                         *)
(* Texts are sequences of one-character strings, so that stripping,        *)
(* substring tests and the regular-expression removal are computed         *)
(* character by character as the Python code computes them.                *)
(***************************************************************************)
EXTENDS Integers, Sequences, FiniteSets, TLC

VARIABLES
    doc,            \* the HTML report read by extract_test_data (the input)
    pc,             \* position of execute()
    raised,         \* the step whose exception execute() re-raised, or "none"
    test_data,      \* the value extract_test_data returned
    envSource,      \* history: the source each environment field was written from
    documents,      \* the list index_test_results built
    uploads,        \* the batches handed to search_client.upload_documents
    uuids,          \* how many uuid4 values were generated
    search_client,  \* "None" or "SearchClient"
    index_client,   \* "None" or "SearchIndexClient"
    attempt,        \* loop variable of ensure_search_service_exists
    index_known,    \* history: get_index or create_index succeeded
    version_str,    \* the argument of a direct clean_version_string call
    cleaned,        \* the results of successive clean_version_string calls
    data_jsonblob,  \* the data-jsonblob attribute of a direct load (line 332)
    loaded,         \* the outcomes of json.loads(clean_json_string(json_str))
    service,        \* history: how ensure_search_service_exists found the service
    index_warning   \* history: create_index raised an AzureError that was swallowed

vars == <<doc, pc, raised, test_data, envSource, documents, uploads, uuids,
          search_client, index_client, attempt, index_known, version_str, cleaned,
          data_jsonblob, loaded, service, index_warning>>

(***************************************************************************)
(* Text helpers (Python str methods)                                       *)
(***************************************************************************)

\* A character is a one-character string; a character that a TLA+ string cannot
\* hold is written "U+" and its code point in four or more hexadecimal digits
\* ("U+000B" is the vertical tab).

\* The characters for which str.isspace() holds: str.strip() with no argument
\* removes them, and \s of a str pattern matches them
PyWhitespace ==
    {"\t", "\n", "\f", "\r", " ", "U+000B", "U+001C", "U+001D",
     "U+001E", "U+001F", "U+0085", "U+00A0", "U+1680", "U+2000", "U+2001", "U+2002",
     "U+2003", "U+2004", "U+2005", "U+2006", "U+2007", "U+2008", "U+2009", "U+200A",
     "U+2028", "U+2029", "U+202F", "U+205F", "U+3000"}

\* str.strip() with no argument removes these
IsSpace(c) == c \in PyWhitespace

\* The operators on texts look for the next place where something happens and
\* recur from there, so that their nesting grows with the number of such
\* places and not with the length of the text.

\* The number of characters of s from position i on that are in set
RunLen(s, i, set) ==
    IF i > Len(s) THEN 0
    ELSE LET end == CHOOSE k \in i..(Len(s) + 1) :
                        /\ k = Len(s) + 1 \/ s[k] \notin set
                        /\ \A j \in i..(k - 1) : s[j] \in set
         IN  end - i

\* The number of characters of s from position i on that are not in set
RunLenNot(s, i, set) ==
    IF i > Len(s) THEN 0
    ELSE LET end == CHOOSE k \in i..(Len(s) + 1) :
                        /\ k = Len(s) + 1 \/ s[k] \in set
                        /\ \A j \in i..(k - 1) : s[j] \notin set
         IN  end - i

\* The number of characters at the end of s that are in set
RunLenBack(s, set) ==
    LET last == CHOOSE k \in 0..Len(s) :
                    /\ k = 0 \/ s[k] \notin set
                    /\ \A j \in (k + 1)..Len(s) : s[j] \in set
    IN  Len(s) - last

\* s.lstrip(chars), s.rstrip(chars), s.strip(chars)
LStripChars(s, set) == SubSeq(s, RunLen(s, 1, set) + 1, Len(s))
RStripChars(s, set) == SubSeq(s, 1, Len(s) - RunLenBack(s, set))
StripChars(s, set) == RStripChars(LStripChars(s, set), set)

\* s.strip()
Strip(s) == StripChars(s, PyWhitespace)

\* s[i:].startswith(p), i counted from 1
MatchAt(s, i, p) ==
    /\ i + Len(p) - 1 <= Len(s)
    /\ SubSeq(s, i, i + Len(p) - 1) = p

\* p in s
Contains(s, p) == \E i \in 1..(Len(s) + 1) : MatchAt(s, i, p)

\* s.split(c, 1)[1] for a text that contains c
AfterFirst(s, c) ==
    LET i == CHOOSE k \in 1..Len(s) : s[k] = c /\ \A j \in 1..(k - 1) : s[j] # c
    IN  SubSeq(s, i + 1, Len(s))

(***************************************************************************)
(* clean_version_string                                                    *)
(***************************************************************************)

\* The literal the pattern marker\\n matches: m a r k e r, a backslash, n.
MarkerText == <<"m", "a", "r", "k", "e", "r", "\\", "n">>

QuoteChars == {"\"", "'"}

\* re.sub(r'marker\\n|["\']', '', s): one left-to-right pass, matches do not overlap
\* and the text a removal joins together is not scanned again.
RECURSIVE ReSubMarkerQuotes(_)
ReSubMarkerQuotes(s) ==
    IF s = <<>> THEN <<>>
    ELSE IF MatchAt(s, 1, MarkerText)
         THEN ReSubMarkerQuotes(SubSeq(s, Len(MarkerText) + 1, Len(s)))
    ELSE IF Head(s) \in QuoteChars
         THEN ReSubMarkerQuotes(Tail(s))
    ELSE <<Head(s)>> \o ReSubMarkerQuotes(Tail(s))

\* The variant that keeps the text after the last colon instead of the first.
clean_version_string_last_colon(v) ==
    IF v = <<>> THEN <<>>
    ELSE LET a == ReSubMarkerQuotes(v)
             last == CHOOSE k \in 0..Len(a) :
                        /\ (k > 0 => a[k] = ":")
                        /\ \A j \in (k + 1)..Len(a) : a[j] # ":"
         IN  Strip(SubSeq(a, last + 1, Len(a)))

\* Lines 51-64
clean_version_string(v) ==
    IF v = <<>> THEN <<>>
    ELSE LET a == ReSubMarkerQuotes(v)
             b == IF Contains(a, <<":">>) THEN Strip(AfterFirst(a, ":")) ELSE a
         IN  Strip(b)

(***************************************************************************)
(* Python values held in the parsed blob and in the environment record     *)
(***************************************************************************)

\* A value is tagged with its Python type: t is "str", "none" (None), "num"
\* (s holds its decimal text), "dict", or "absent" for a key a dict lacks.
PyS(s) == [t |-> "str", s |-> s]
PyNone == [t |-> "none", s |-> <<>>]
PyNum(s) == [t |-> "num", s |-> s]
Absent == [t |-> "absent", s |-> <<>>]

\* d.get(key, "") for a looked-up value v
GetOrEmpty(v) == IF v.t = "absent" THEN PyS(<<>>) ELSE v

\* str(v)
Str(v) == IF v.t = "none" THEN <<"N", "o", "n", "e">> ELSE v.s

\* clean_version_string(str(d.get(key, "")))
CleanGet(v) == PyS(clean_version_string(Str(GetOrEmpty(v))))

PackageKeys == {"pytest", "pluggy"}
PluginKeysJson == {"base-url", "playwright", "asyncio", "html", "metadata"}
TopKeysJson == {"Python", "Platform", "PLATFORM", "Base URL"}

\* The environment record extract_test_data starts from.
DefaultEnvironment ==
    [python |-> PyS(<<>>), platform |-> PyS(<<>>),
     packages |-> [pytest |-> PyS(<<>>), pluggy |-> PyS(<<>>)],
     plugins |-> [base_url |-> PyS(<<>>), playwright |-> PyS(<<>>),
                  asyncio |-> PyS(<<>>), html |-> PyS(<<>>), metadata |-> PyS(<<>>)],
     platform_type |-> PyS(<<>>), base_url |-> PyS(<<>>)]

EnvFields == {"python", "platform", "platform_type", "base_url",
              "packages.pytest", "packages.pluggy",
              "plugins.base_url", "plugins.playwright", "plugins.asyncio",
              "plugins.html", "plugins.metadata"}
TopFields == {"python", "platform", "platform_type", "base_url"}
PackageFields == {"packages.pytest", "packages.pluggy"}
PluginFields == EnvFields \ (TopFields \cup PackageFields)

\* The value of one field of an environment record, by its dotted name.
Field(env, f) ==
    CASE f = "python" -> env.python
      [] f = "platform" -> env.platform
      [] f = "platform_type" -> env.platform_type
      [] f = "base_url" -> env.base_url
      [] f = "packages.pytest" -> env.packages.pytest
      [] f = "packages.pluggy" -> env.packages.pluggy
      [] f = "plugins.base_url" -> env.plugins.base_url
      [] f = "plugins.playwright" -> env.plugins.playwright
      [] f = "plugins.asyncio" -> env.plugins.asyncio
      [] f = "plugins.html" -> env.plugins.html
      [] f = "plugins.metadata" -> env.plugins.metadata

DefaultSource == [f \in EnvFields |-> "default"]

\* The sources after the fields fs were written from src.
Written(source, fs, src) == [f \in EnvFields |-> IF f \in fs THEN src ELSE source[f]]

(***************************************************************************)
(* The literals the code compares texts with                               *)
(***************************************************************************)

T_Packages == <<"P", "a", "c", "k", "a", "g", "e", "s">>
T_Plugins == <<"P", "l", "u", "g", "i", "n", "s">>
T_Python == <<"P", "y", "t", "h", "o", "n">>
T_Platform == <<"P", "l", "a", "t", "f", "o", "r", "m">>
T_PLATFORM == <<"P", "L", "A", "T", "F", "O", "R", "M">>
T_BaseURL == <<"B", "a", "s", "e", " ", "U", "R", "L">>
T_pytest_colon == <<"p", "y", "t", "e", "s", "t", ":">>
T_pluggy_colon == <<"p", "l", "u", "g", "g", "y", ":">>
T_base_url_colon == <<"b", "a", "s", "e", "-", "u", "r", "l", ":">>
T_playwright_colon == <<"p", "l", "a", "y", "w", "r", "i", "g", "h", "t", ":">>
T_asyncio_colon == <<"a", "s", "y", "n", "c", "i", "o", ":">>
T_html_colon == <<"h", "t", "m", "l", ":">>
T_metadata_colon == <<"m", "e", "t", "a", "d", "a", "t", "a", ":">>

(***************************************************************************)
(* extract_environment_from_html                                           *)
(*                                                                         *)
(* The environment table is "absent" or a sequence of rows (tr); a row is  *)
(* a sequence of cells (td); a cell has its text and the texts of its li   *)
(* elements.                                                               *)
(***************************************************************************)

HtmlEnvDefault ==
    [k \in TopKeysJson |-> <<>>]
    @@ ("Packages" :> [k \in PackageKeys |-> <<>>])
    @@ ("plugins" :> [k \in PluginKeysJson |-> <<>>])

\* One li of the Packages cell: the if/elif chain of lines 268-271.
PackagesLi(env, li) ==
    LET text == Strip(li)
    IN  IF Contains(text, T_pytest_colon)
            THEN [env EXCEPT !["Packages"]["pytest"] = clean_version_string(text)]
        ELSE IF Contains(text, T_pluggy_colon)
            THEN [env EXCEPT !["Packages"]["pluggy"] = clean_version_string(text)]
        ELSE env

\* One li of the Plugins cell: the if/elif chain of lines 277-286.
PluginsLi(env, li) ==
    LET text == Strip(li)
    IN  IF Contains(text, T_base_url_colon)
            THEN [env EXCEPT !["plugins"]["base-url"] = clean_version_string(text)]
        ELSE IF Contains(text, T_playwright_colon)
            THEN [env EXCEPT !["plugins"]["playwright"] = clean_version_string(text)]
        ELSE IF Contains(text, T_asyncio_colon)
            THEN [env EXCEPT !["plugins"]["asyncio"] = clean_version_string(text)]
        ELSE IF Contains(text, T_html_colon)
            THEN [env EXCEPT !["plugins"]["html"] = clean_version_string(text)]
        ELSE IF Contains(text, T_metadata_colon)
            THEN [env EXCEPT !["plugins"]["metadata"] = clean_version_string(text)]
        ELSE env

RECURSIVE PackagesLis(_, _)
PackagesLis(env, lis) ==
    IF lis = <<>> THEN env ELSE PackagesLis(PackagesLi(env, Head(lis)), Tail(lis))

RECURSIVE PluginsLis(_, _)
PluginsLis(env, lis) ==
    IF lis = <<>> THEN env ELSE PluginsLis(PluginsLi(env, Head(lis)), Tail(lis))

\* The body of the loop over the rows, lines 257-296.
HtmlRow(env, row) ==
    IF Len(row) < 2 THEN env
    ELSE LET key == Strip(row[1].text)
             value_cell == row[2]
         IN  IF key = T_Packages THEN PackagesLis(env, value_cell.lis)
             ELSE IF key = T_Plugins THEN PluginsLis(env, value_cell.lis)
             ELSE IF key = T_Python
                 THEN [env EXCEPT !["Python"] = Strip(value_cell.text)]
             ELSE IF key = T_Platform
                 THEN [env EXCEPT !["Platform"] = Strip(value_cell.text)]
             ELSE IF key = T_PLATFORM
                 THEN [env EXCEPT !["PLATFORM"] = Strip(value_cell.text)]
             ELSE IF key = T_BaseURL
                 THEN [env EXCEPT !["Base URL"] = Strip(value_cell.text)]
             ELSE env

RECURSIVE HtmlRows(_, _)
HtmlRows(env, rows) ==
    IF rows = <<>> THEN env ELSE HtmlRows(HtmlRow(env, Head(rows)), Tail(rows))

\* table: [present |-> BOOLEAN, rows |-> sequence of rows]
extract_environment_from_html(table) ==
    IF ~table.present THEN HtmlEnvDefault ELSE HtmlRows(HtmlEnvDefault, table.rows)

(***************************************************************************)
(* extract_test_data: the environment record                               *)
(*                                                                         *)
(* data_container: [present, has_blob, loads], where loads is what         *)
(* json.loads(clean_json_string(blob)) does: exception is the exception it *)
(* raises, "none" when it returns the parsed value json_data.              *)
(* json_data: [t, environment]; environment: [t, top, Packages, plugins]   *)
(* with top a function on TopKeysJson and Packages, plugins of the form    *)
(* [t, items]; t is the Python type of the value ("absent": no such key).  *)
(***************************************************************************)

\* environment.update({...}) of lines 348-353 (v: the looked-up values)
UpdateTop(e, v) ==
    [e EXCEPT !.python = GetOrEmpty(v["Python"]),
              !.platform = GetOrEmpty(v["Platform"]),
              !.platform_type = GetOrEmpty(v["PLATFORM"]),
              !.base_url = GetOrEmpty(v["Base URL"])]

\* environment["packages"].update({...}) of lines 358-361 and 392-395
UpdatePackages(e, pkg_data) ==
    [e EXCEPT !.packages = [pytest |-> CleanGet(pkg_data["pytest"]),
                            pluggy |-> CleanGet(pkg_data["pluggy"])]]

\* environment["plugins"].update({...}) of lines 366-372 and 400-406
UpdatePlugins(e, plugin_data) ==
    [e EXCEPT !.plugins = [base_url |-> CleanGet(plugin_data["base-url"]),
                           playwright |-> CleanGet(plugin_data["playwright"]),
                           asyncio |-> CleanGet(plugin_data["asyncio"]),
                           html |-> CleanGet(plugin_data["html"]),
                           metadata |-> CleanGet(plugin_data["metadata"])]]

\* Lines 343-372 with the handler of line 407: what the try block leaves in
\* environment when json.loads returned json_data.  A .get on a value that is no
\* dict raises AttributeError, which line 407 catches: the updates made before it
\* stay, the later ones are not made.
EnvironmentFromJson(json_data) ==
    LET e0 == [environment |-> DefaultEnvironment, source |-> DefaultSource]
        json_env == json_data.environment
    IN  IF json_data.t # "dict" \/ json_env.t = "absent" THEN e0
        ELSE IF json_env.t # "dict" THEN e0
        ELSE
          LET e1 == [environment |-> UpdateTop(e0.environment, json_env.top),
                     source |-> Written(e0.source, TopFields, "json")]
          IN  IF json_env.Packages.t \notin {"absent", "dict"} THEN e1
              ELSE
                LET e2 == IF json_env.Packages.t = "absent" THEN e1
                          ELSE [environment |->
                                    UpdatePackages(e1.environment, json_env.Packages.items),
                                source |-> Written(e1.source, PackageFields, "json")]
                IN  IF json_env.plugins.t = "absent" THEN e2
                    ELSE IF json_env.plugins.t # "dict" THEN e2
                    ELSE [environment |->
                              UpdatePlugins(e2.environment, json_env.plugins.items),
                          source |-> Written(e2.source, PluginFields, "json")]

\* Lines 379-406: the handler of json.JSONDecodeError.
EnvironmentFromHtml(table) ==
    LET html_env == extract_environment_from_html(table)
        top == [k \in TopKeysJson |-> PyS(html_env[k])]
        pkg_data == [k \in PackageKeys |-> PyS(html_env["Packages"][k])]
        plugin_data == [k \in PluginKeysJson |-> PyS(html_env["plugins"][k])]
    IN  [environment |->
             UpdatePlugins(UpdatePackages(UpdateTop(DefaultEnvironment, top), pkg_data),
                           plugin_data),
         source |-> [f \in EnvFields |-> "html"]]

\* The variant that takes the packages from the table when the blob gave none.
ExtractEnvironmentMerging(d) ==
    IF d.data_container.present /\ d.data_container.has_blob
        THEN IF d.data_container.loads.exception = "JSONDecodeError"
                 THEN EnvironmentFromHtml(d.table)
             ELSE IF d.data_container.loads.exception # "none"
                 THEN [environment |-> DefaultEnvironment, source |-> DefaultSource]
             ELSE LET j == EnvironmentFromJson(d.data_container.loads.json_data)
                      h == EnvironmentFromHtml(d.table)
                  IN  [environment |->
                           [j.environment EXCEPT
                               !.packages = IF j.source["packages.pytest"] = "default"
                                            THEN h.environment.packages ELSE @],
                       source |->
                           [f \in EnvFields |->
                               IF f \in PackageFields /\ j.source[f] = "default"
                               THEN "html" ELSE j.source[f]]]
    ELSE [environment |-> DefaultEnvironment, source |-> DefaultSource]

\* Lines 310-408: the environment record, and the source of each of its fields.
\* An exception of json.loads that is no JSONDecodeError goes to the handler of
\* line 407, which leaves the record as it is.
ExtractEnvironment(d) ==
    IF d.data_container.present /\ d.data_container.has_blob
        THEN IF d.data_container.loads.exception = "JSONDecodeError"
                 THEN EnvironmentFromHtml(d.table)
             ELSE IF d.data_container.loads.exception # "none"
                 THEN [environment |-> DefaultEnvironment, source |-> DefaultSource]
             ELSE EnvironmentFromJson(d.data_container.loads.json_data)
    ELSE [environment |-> DefaultEnvironment, source |-> DefaultSource]

(***************************************************************************)
(* extract_test_data: the test records, the title, the returned value      *)
(*                                                                         *)
(* An element that find() may not find is [present, text].  A group is one *)
(* tbody.results-table-row: [test_row, result_cell, test_id_cell,          *)
(* duration_cell, log_div, extras_row, media_div, img, src]; the cells are *)
(* those of the group's tr.collapsible.  The resultsTableRow entry of a    *)
(* record (the prettified cells) is markup for display and is left out.    *)
(***************************************************************************)

T_NoLog == <<"N", "o", " ", "l", "o", "g", " ", "o", "u", "t", "p", "u", "t", " ", "c", "a", "p", "t", "u", "r", "e", "d", ".">>
T_ReportHtml == <<"r", "e", "p", "o", "r", "t", ".", "h", "t", "m", "l">>
T_Screenshot == <<"S", "c", "r", "e", "e", "n", "s", "h", "o", "t">>
T_image == <<"i", "m", "a", "g", "e">>

\* The variant that adds an item for every assignment, also of a key it has.
DictSetAppend(d, k, v) == Append(d, [key |-> k, value |-> v])

\* d[k] = v on a dict kept as the sequence of its items in insertion order: an
\* existing key keeps its place and gets the new value.
DictSet(d, k, v) ==
    IF \E i \in 1..Len(d) : d[i].key = k
        THEN [i \in 1..Len(d) |-> IF d[i].key = k THEN [key |-> k, value |-> v] ELSE d[i]]
    ELSE Append(d, [key |-> k, value |-> v])

\* Lines 429-440
Extras(g) ==
    IF g.extras_row /\ g.media_div /\ g.img /\ g.src.present /\ g.src.text # <<>>
        THEN <<[name |-> T_Screenshot, format_type |-> T_image, content |-> g.src.text]>>
    ELSE <<>>

\* The variant that drops the sentinel and leaves the log empty.
LogContentEmptyDefault(log_div) == IF log_div.present THEN Strip(log_div.text) ELSE <<>>

\* Line 426
LogContent(log_div) == IF log_div.present THEN Strip(log_div.text) ELSE T_NoLog

\* The variant that does not ask for the duration cell.
QualifiesWithoutDuration(g) ==
    g.test_row /\ g.result_cell.present /\ g.test_id_cell.present

\* Lines 415-421: the group has its primary row and the three cells in it.
Qualifies(g) ==
    /\ g.test_row
    /\ g.result_cell.present /\ g.test_id_cell.present /\ g.duration_cell.present

\* Lines 442-454
TestRecord(g) ==
    [extras |-> Extras(g),
     result |-> Strip(g.result_cell.text),
     testId |-> Strip(g.test_id_cell.text),
     duration |-> Strip(g.duration_cell.text),
     log |-> LogContent(g.log_div)]

\* The body of the loop over the groups, lines 415-456
TestsGroup(tests, g) ==
    IF Qualifies(g)
        THEN DictSet(tests, Strip(g.test_id_cell.text), <<TestRecord(g)>>)
    ELSE tests

RECURSIVE TestsGroups(_, _)
TestsGroups(tests, groups) ==
    IF groups = <<>> THEN tests
    ELSE TestsGroups(TestsGroup(tests, Head(groups)), Tail(groups))

\* Lines 411-456.  results_table: [present, groups]
ExtractTests(results_table) ==
    IF results_table.present THEN TestsGroups(<<>>, results_table.groups) ELSE <<>>

\* Lines 459-460
Title(h1) == IF h1.present THEN Strip(h1.text) ELSE T_ReportHtml

\* CONFIG["METADATA"], lines 44-48
Metadata ==
    [processor_version |-> "2.0.3", processed_by |-> "sumi9876",
     processed_at |-> "2025-07-30 21:01:11"]

\* Lines 463-474
TestData(environment, tests, title) ==
    [environment |-> environment, tests |-> tests,
     renderCollapsed |-> <<"passed">>, initialSort |-> "result",
     title |-> title, metadata |-> Metadata]

NoTestData == TestData(DefaultEnvironment, <<>>, <<>>)

(***************************************************************************)
(* index_test_results                                                      *)
(***************************************************************************)

\* self.processing_timestamp.strftime("%Y-%m-%dT%H:%M:%SZ") of the configured time
ProcessingTimestamp == "2025-07-30T21:01:11Z"

\* Lines 557-573: the environment of an index document, every value a str.
DocumentEnvironment(env) ==
    [python |-> PyS(Str(env.python)),
     platform |-> PyS(Str(env.platform)),
     packages |-> [pytest |-> CleanGet(env.packages.pytest),
                   pluggy |-> CleanGet(env.packages.pluggy)],
     plugins |-> [base_url |-> CleanGet(env.plugins.base_url),
                  playwright |-> CleanGet(env.plugins.playwright),
                  asyncio |-> CleanGet(env.plugins.asyncio),
                  html |-> CleanGet(env.plugins.html),
                  metadata |-> CleanGet(env.plugins.metadata)],
     platform_type |-> PyS(Str(env.platform_type)),
     base_url |-> PyS(Str(env.base_url))]

\* Lines 550-580.  id stands for str(uuid.uuid4()): the n-th value the generator
\* returned, the values of one run being pairwise different.
Document(td, test, id) ==
    [id |-> id,
     testId |-> test.testId,
     result |-> test.result,
     duration |-> test.duration,
     log |-> test.log,
     timestamp |-> ProcessingTimestamp,
     environment |-> DocumentEnvironment(td.environment),
     metadata |-> [processor_version |-> Metadata.processor_version,
                   processed_by |-> Metadata.processed_by,
                   processed_at |-> ProcessingTimestamp],
     title |-> td.title]

\* The variant that walks the records from the last to the first.
RECURSIVE TestListReversed(_)
TestListReversed(tests) ==
    IF tests = <<>> THEN <<>> ELSE TestListReversed(Tail(tests)) \o Head(tests).value

\* The test records in the order of the two loops of lines 548-549.
RECURSIVE TestList(_)
TestList(tests) ==
    IF tests = <<>> THEN <<>> ELSE Head(tests).value \o TestList(Tail(tests))

\* The ids of a batch of n documents when `first` values were generated before.
DocumentIds(n, first) == [i \in 1..n |-> first + i]

\* Lines 545-582: the documents list.
BuildDocuments(td, first) ==
    LET list == TestList(td.tests)
        ids == DocumentIds(Len(list), first)
    IN  [i \in 1..Len(list) |-> Document(td, list[i], ids[i])]

\* The variant that uploads every document as it is built.
UploadCallsPerDocument(docs) == [i \in 1..Len(docs) |-> <<docs[i]>>]

\* Lines 584-585: the batches handed to upload_documents.
UploadCalls(docs) == IF docs # <<>> THEN <<docs>> ELSE <<>>

(***************************************************************************)
(* execute(): the steps, in the order of lines 601-617.  Every call to a   *)
(* service outside the program either returns or raises.                   *)
(***************************************************************************)

\* max_retries of ensure_search_service_exists
max_retries == 5

Fail(step) ==
    /\ pc' = "failed"
    /\ raised' = step

\* Line 603, setup_file_share returns the share client
SetupFileShare ==
    /\ pc = "setup_file_share"
    /\ pc' = "extract_test_data"
    /\ UNCHANGED <<doc, raised, test_data, envSource, documents, uploads, uuids,
                   search_client, index_client, attempt, index_known, version_str, cleaned,
                   data_jsonblob, loaded, service, index_warning>>

\* Lines 228-230: setup_file_share raises, execute re-raises (lines 619-623)
SetupFileShareRaises ==
    /\ pc = "setup_file_share"
    /\ Fail("setup_file_share")
    /\ UNCHANGED <<doc, test_data, envSource, documents, uploads, uuids,
                   search_client, index_client, attempt, index_known, version_str, cleaned,
                   data_jsonblob, loaded, service, index_warning>>

\* Lines 300-479: extract_test_data returns
ExtractTestData ==
    /\ pc = "extract_test_data"
    /\ LET e == ExtractEnvironment(doc)
       IN  /\ test_data' = TestData(e.environment, ExtractTests(doc.results_table),
                                    Title(doc.title))
           /\ envSource' = e.source
    /\ pc' = "ensure_search_service_exists"
    /\ UNCHANGED <<doc, raised, documents, uploads, uuids,
                   search_client, index_client, attempt, index_known, version_str, cleaned,
                   data_jsonblob, loaded, service, index_warning>>

\* Lines 303-307 raise (the download, the decoding or the parser), lines 481-483
\* re-raise and so does execute
ExtractTestDataRaises ==
    /\ pc = "extract_test_data"
    /\ Fail("extract_test_data")
    /\ UNCHANGED <<doc, test_data, envSource, documents, uploads, uuids,
                   search_client, index_client, attempt, index_known, version_str, cleaned,
                   data_jsonblob, loaded, service, index_warning>>

\* Lines 146-151: services.get returns, the loop ends
ServiceExists ==
    /\ pc = "ensure_search_service_exists"
    /\ pc' = "admin_key"
    /\ service' = "exists"
    /\ UNCHANGED <<doc, raised, test_data, envSource, documents, uploads, uuids,
                   search_client, index_client, attempt, index_known, version_str, cleaned,
                   data_jsonblob, loaded, index_warning>>

\* Lines 152-169: services.get raised and the creation succeeded, the loop ends
ServiceCreated ==
    /\ pc = "ensure_search_service_exists"
    /\ pc' = "admin_key"
    /\ service' = "created"
    /\ UNCHANGED <<doc, raised, test_data, envSource, documents, uploads, uuids,
                   search_client, index_client, attempt, index_known, version_str, cleaned,
                   data_jsonblob, loaded, index_warning>>

\* A loop that re-raises one attempt later than line 171 does
ServiceCreationFailsOneMore ==
    /\ pc = "ensure_search_service_exists"
    /\ IF attempt = max_retries
           THEN Fail("ensure_search_service_exists") /\ UNCHANGED attempt
       ELSE attempt' = attempt + 1 /\ UNCHANGED <<pc, raised>>
    /\ UNCHANGED <<doc, test_data, envSource, documents, uploads, uuids,
                   search_client, index_client, index_known, version_str, cleaned,
                   data_jsonblob, loaded, service, index_warning>>

\* Lines 170-174: the creation raised; the last attempt re-raises
ServiceCreationFails ==
    /\ pc = "ensure_search_service_exists"
    /\ IF attempt = max_retries - 1
           THEN Fail("ensure_search_service_exists") /\ UNCHANGED attempt
       ELSE attempt' = attempt + 1 /\ UNCHANGED <<pc, raised>>
    /\ UNCHANGED <<doc, test_data, envSource, documents, uploads, uuids,
                   search_client, index_client, index_known, version_str, cleaned,
                   data_jsonblob, loaded, service, index_warning>>

\* Lines 177-194: the admin key is read and the two clients are made
SearchClientsSet ==
    /\ pc = "admin_key"
    /\ search_client' = "SearchClient"
    /\ index_client' = "SearchIndexClient"
    /\ pc' = "create_search_index"
    /\ UNCHANGED <<doc, raised, test_data, envSource, documents, uploads, uuids,
                   attempt, index_known, version_str, cleaned,
                   data_jsonblob, loaded, service, index_warning>>

\* Lines 177-180 raise, lines 198-200 re-raise
AdminKeyRaises ==
    /\ pc = "admin_key"
    /\ Fail("ensure_search_service_exists")
    /\ UNCHANGED <<doc, test_data, envSource, documents, uploads, uuids,
                   search_client, index_client, attempt, index_known, version_str, cleaned,
                   data_jsonblob, loaded, service, index_warning>>

\* Lines 531-533: get_index returns
IndexExists ==
    /\ pc = "create_search_index"
    /\ index_known' = TRUE
    /\ pc' = "index_test_results"
    /\ UNCHANGED <<doc, raised, test_data, envSource, documents, uploads, uuids,
                   search_client, index_client, attempt, version_str, cleaned,
                   data_jsonblob, loaded, service, index_warning>>

\* Lines 534-537: get_index raised, create_index returns
IndexCreated ==
    /\ pc = "create_search_index"
    /\ index_known' = TRUE
    /\ pc' = "index_test_results"
    /\ UNCHANGED <<doc, raised, test_data, envSource, documents, uploads, uuids,
                   search_client, index_client, attempt, version_str, cleaned,
                   data_jsonblob, loaded, service, index_warning>>

\* Lines 538-540: create_index raised an AzureError, which is printed and dropped
IndexCreationAzureError ==
    /\ pc = "create_search_index"
    /\ pc' = "index_test_results"
    /\ index_warning' = TRUE
    /\ UNCHANGED <<doc, raised, test_data, envSource, documents, uploads, uuids,
                   search_client, index_client, attempt, index_known, version_str, cleaned,
                   data_jsonblob, loaded, service>>

\* A create_search_index that drops every exception of create_index
IndexCreationRaisesDropped ==
    /\ pc = "create_search_index"
    /\ pc' = "index_test_results"
    /\ UNCHANGED <<doc, raised, test_data, envSource, documents, uploads, uuids,
                   search_client, index_client, attempt, index_known, version_str, cleaned,
                   data_jsonblob, loaded, service, index_warning>>

\* create_index raised another exception: nothing in create_search_index catches it
IndexCreationRaises ==
    /\ pc = "create_search_index"
    /\ Fail("create_search_index")
    /\ UNCHANGED <<doc, test_data, envSource, documents, uploads, uuids,
                   search_client, index_client, attempt, index_known, version_str, cleaned,
                   data_jsonblob, loaded, service, index_warning>>

\* Lines 542-586: index_test_results builds the documents and uploads them
IndexTestResults ==
    /\ pc = "index_test_results"
    /\ documents' = BuildDocuments(test_data, uuids)
    /\ uuids' = uuids + Len(documents')
    /\ uploads' = uploads \o UploadCalls(documents')
    /\ pc' = "done"
    /\ UNCHANGED <<doc, raised, test_data, envSource,
                   search_client, index_client, attempt, index_known, version_str, cleaned,
                   data_jsonblob, loaded, service, index_warning>>

\* Lines 585-590: upload_documents was called and raised
IndexTestResultsRaises ==
    /\ pc = "index_test_results"
    /\ documents' = BuildDocuments(test_data, uuids)
    /\ documents' # <<>>
    /\ uuids' = uuids + Len(documents')
    /\ uploads' = uploads \o UploadCalls(documents')
    /\ Fail("index_test_results")
    /\ UNCHANGED <<doc, test_data, envSource,
                   search_client, index_client, attempt, index_known, version_str, cleaned,
                   data_jsonblob, loaded, service, index_warning>>

Next ==
    \/ SetupFileShare
    \/ SetupFileShareRaises
    \/ ExtractTestData
    \/ ExtractTestDataRaises
    \/ ServiceExists
    \/ ServiceCreated
    \/ ServiceCreationFails
    \/ SearchClientsSet
    \/ AdminKeyRaises
    \/ IndexExists
    \/ IndexCreated
    \/ IndexCreationAzureError
    \/ IndexCreationRaises
    \/ IndexTestResults
    \/ IndexTestResultsRaises

(***************************************************************************)
(* The documents the model reads                                           *)
(***************************************************************************)

\* Bounds of the inputs
MaxRows == 2
MaxGroups == 2
MaxPieces == 4
MaxCleans == 2

\* The sequences over S of length at most n
RECURSIVE SeqsUpTo(_, _)
SeqsUpTo(S, n) ==
    IF n = 0 THEN {<<>>}
    ELSE LET shorter == SeqsUpTo(S, n - 1)
         IN  shorter \cup {Append(q, x) : q \in shorter, x \in S}

\* Rows of an environment table
Row_Python ==
    <<[text |-> <<" ", "P", "y", "t", "h", "o", "n", " ">>, lis |-> <<>>],
      [text |-> <<" ", "3", ".", "1", "1", " ">>, lis |-> <<>>]>>
Row_PythonOneCell ==
    <<[text |-> <<"P", "y", "t", "h", "o", "n">>, lis |-> <<>>]>>
Row_Platform ==
    <<[text |-> <<"P", "l", "a", "t", "f", "o", "r", "m">>, lis |-> <<>>],
      [text |-> <<"L", "i", "n", "u", "x">>, lis |-> <<>>]>>
Row_PLATFORM ==
    <<[text |-> <<"P", "L", "A", "T", "F", "O", "R", "M">>, lis |-> <<>>],
      [text |-> <<"x", "6", "4", " ">>, lis |-> <<>>]>>
Row_BaseURL ==
    <<[text |-> <<"B", "a", "s", "e", " ", "U", "R", "L">>, lis |-> <<>>],
      [text |-> <<"h", "t", "t", "p", ":", "/", "/", "a">>, lis |-> <<>>]>>
Row_Other ==
    <<[text |-> <<"J", "A", "V", "A", "_", "H", "O", "M", "E">>, lis |-> <<>>],
      [text |-> <<"/", "j">>, lis |-> <<>>]>>
Row_Packages ==
    <<[text |-> <<"P", "a", "c", "k", "a", "g", "e", "s">>, lis |-> <<>>],
      [text |-> <<>>, lis |-> <<<<"p", "y", "t", "e", "s", "t", ":", " ", "8", ".", "3">>, <<" ", "p", "l", "u", "g", "g", "y", ":", " ", "'", "1", ".", "5", "'", " ">>>>]>>
Row_PackagesColons ==
    <<[text |-> <<"P", "a", "c", "k", "a", "g", "e", "s">>, lis |-> <<>>],
      [text |-> <<>>, lis |-> <<<<"p", "y", "t", "e", "s", "t", ":", " ", "1", ":", "2", ":", "3">>>>]>>
Row_PackagesOther ==
    <<[text |-> <<"P", "a", "c", "k", "a", "g", "e", "s">>, lis |-> <<>>],
      [text |-> <<>>, lis |-> <<<<"p", "l", "u", "g", "g", "y", ":", " ", "1", ".", "5">>, <<"w", "h", "e", "e", "l", ":", " ", "0", ".", "4">>>>]>>
Row_Plugins ==
    <<[text |-> <<"P", "l", "u", "g", "i", "n", "s">>, lis |-> <<>>],
      [text |-> <<>>, lis |-> <<<<"b", "a", "s", "e", "-", "u", "r", "l", ":", " ", "2", ".", "1">>, <<"p", "l", "a", "y", "w", "r", "i", "g", "h", "t", ":", " ", "0", ".", "5">>, <<"a", "s", "y", "n", "c", "i", "o", ":", " ", "0", ".", "2">>, <<"h", "t", "m", "l", ":", " ", "4", ".", "1">>, <<"m", "e", "t", "a", "d", "a", "t", "a", ":", " ", "3", ".", "1">>>>]>>
Row_PluginsColons ==
    <<[text |-> <<"P", "l", "u", "g", "i", "n", "s">>, lis |-> <<>>],
      [text |-> <<>>, lis |-> <<<<"p", "l", "a", "y", "w", "r", "i", "g", "h", "t", ":", " ", "0", ".", "5", ":", "1">>, <<"p", "y", "t", "e", "s", "t", "-", "h", "t", "m", "l", ":", " ", "4", ".", "1">>>>]>>
Row_PluginsMarker ==
    <<[text |-> <<"P", "l", "u", "g", "i", "n", "s">>, lis |-> <<>>],
      [text |-> <<>>, lis |-> <<<<"m", "a", "r", "k", "e", "r", "\\", "n", "m", "e", "t", "a", "d", "a", "t", "a", ":", " ", "3", ".", "1">>, <<"x", "d", "i", "s", "t">>>>]>>

RowSet ==
    {Row_Python,
     Row_PythonOneCell,
     Row_Platform,
     Row_PLATFORM,
     Row_BaseURL,
     Row_Other,
     Row_Packages,
     Row_PackagesColons,
     Row_PackagesOther,
     Row_Plugins,
     Row_PluginsColons,
     Row_PluginsMarker}

NoTable == [present |-> FALSE, rows |-> <<>>]
Tables == {NoTable} \cup {[present |-> TRUE, rows |-> r] : r \in SeqsUpTo(RowSet, MaxRows)}
FullTable ==
    [present |-> TRUE,
     rows |-> <<Row_Python, Row_Platform, Row_PackagesColons, Row_PluginsColons>>]

\* Values of the parsed blob
V_Plain == <<"8", ".", "3">>
V_Colons == <<"1", ":", "2", ":", "3">>
V_MarkerQuoted == <<"m", "a", "r", "k", "e", "r", "\\", "n", "'", "0", ".", "5", "'">>
V_Python == <<"3", ".", "1", "1", ".", "9">>
V_Name == <<"p", "y", "t", "e", "s", "t", ":", " ", "7", ":", "1">>

ItemValues == {Absent, PyS(V_Plain), PyS(V_Colons), PyS(V_MarkerQuoted), PyNone}
TopValues == {Absent, PyS(V_Python), PyNone}

NoItems(keys) == [k \in keys |-> Absent]
NoPackages == [t |-> "absent", items |-> NoItems(PackageKeys)]
NoPlugins == [t |-> "absent", items |-> NoItems(PluginKeysJson)]

PackagesValues ==
    {NoPackages, [t |-> "str", items |-> NoItems(PackageKeys)]}
    \cup {[t |-> "dict", items |-> [pytest |-> a, pluggy |-> b]] :
              a \in ItemValues, b \in ItemValues}

PluginsValues ==
    {NoPlugins, [t |-> "none", items |-> NoItems(PluginKeysJson)]}
    \cup {[t |-> "dict",
           items |-> ("base-url" :> a) @@ ("playwright" :> PyS(V_Name))
                     @@ ("asyncio" :> Absent) @@ ("html" :> a)
                     @@ ("metadata" :> PyNum(<<"3">>))] : a \in ItemValues}

NoTop == [k \in TopKeysJson |-> Absent]
NoJsonEnv == [t |-> "absent", top |-> NoTop, Packages |-> NoPackages, plugins |-> NoPlugins]

JsonEnvs ==
    {NoJsonEnv, [NoJsonEnv EXCEPT !.t = "none"], [NoJsonEnv EXCEPT !.t = "str"]}
    \cup {[t |-> "dict",
           top |-> ("Python" :> x) @@ ("Platform" :> y)
                   @@ ("PLATFORM" :> y) @@ ("Base URL" :> x),
           Packages |-> p, plugins |-> q] :
              x \in TopValues, y \in TopValues, p \in PackagesValues, q \in PluginsValues}

JsonDatas ==
    {[t |-> "num", environment |-> NoJsonEnv], [t |-> "list", environment |-> NoJsonEnv]}
    \cup {[t |-> "dict", environment |-> e] : e \in JsonEnvs}

FullJsonData ==
    [t |-> "dict",
     environment |->
         [t |-> "dict",
          top |-> ("Python" :> PyS(V_Python)) @@ ("Platform" :> PyS(V_Plain))
                  @@ ("PLATFORM" :> PyS(V_Plain)) @@ ("Base URL" :> PyS(V_Plain)),
          Packages |-> [t |-> "dict", items |-> [pytest |-> PyS(V_Plain), pluggy |-> PyS(V_Plain)]],
          plugins |-> [t |-> "dict", items |-> [k \in PluginKeysJson |-> PyS(V_Plain)]]]]

\* data-container elements
LoadRaises(e) == [exception |-> e, json_data |-> [t |-> "num", environment |-> NoJsonEnv]]
DecodeError == LoadRaises("JSONDecodeError")
Loaded(j) == [exception |-> "none", json_data |-> j]
NoContainer == [present |-> FALSE, has_blob |-> FALSE, loads |-> DecodeError]
ContainerNoBlob == [present |-> TRUE, has_blob |-> FALSE, loads |-> DecodeError]
ContainerBadBlob == [present |-> TRUE, has_blob |-> TRUE, loads |-> DecodeError]
\* a blob with an integer of too many digits, a blob nested too deep
ContainerLongBlob == [present |-> TRUE, has_blob |-> TRUE, loads |-> LoadRaises("ValueError")]
ContainerDeepBlob ==
    [present |-> TRUE, has_blob |-> TRUE, loads |-> LoadRaises("RecursionError")]
Container(j) == [present |-> TRUE, has_blob |-> TRUE, loads |-> Loaded(j)]

\* Elements and groups of the results table
Missing == [present |-> FALSE, text |-> <<>>]
Element(text) == [present |-> TRUE, text |-> text]

GoodGroup ==
    [test_row |-> TRUE,
     result_cell |-> Element(<<" ", "P", "a", "s", "s", "e", "d", " ">>),
     test_id_cell |-> Element(<<"a", ":", ":", "t", "1">>),
     duration_cell |-> Element(<<"0", "0", ":", "0", "7", " ">>),
     log_div |-> Missing,
     extras_row |-> FALSE, media_div |-> FALSE, img |-> FALSE, src |-> Missing]

LoggedGroup ==
    [GoodGroup EXCEPT !.result_cell = Element(<<"F", "a", "i", "l", "e", "d">>),
                      !.test_id_cell = Element(<<"a", ":", ":", "t", "2">>),
                      !.log_div = Element(<<"\n", " ", "b", "o", "o", "m", " ", "\n">>),
                      !.extras_row = TRUE, !.media_div = TRUE, !.img = TRUE,
                      !.src = Element(<<"s", ".", "p", "n", "g">>)]

GroupSet ==
    {GoodGroup,
     LoggedGroup,
     \* the identifier of GoodGroup again, with a log
     [LoggedGroup EXCEPT !.test_id_cell = Element(<<" ", "a", ":", ":", "t", "1", " ">>)],
     \* an empty log element, an image without a source
     [GoodGroup EXCEPT !.test_id_cell = Element(<<"t", "3">>), !.log_div = Element(<<>>),
                       !.extras_row = TRUE, !.media_div = TRUE, !.img = TRUE],
     [GoodGroup EXCEPT !.result_cell = Missing],
     [LoggedGroup EXCEPT !.test_id_cell = Missing],
     [GoodGroup EXCEPT !.duration_cell = Missing],
     [LoggedGroup EXCEPT !.duration_cell = Missing, !.result_cell = Missing],
     \* no tr.collapsible: find() on None is never reached, the cells are not looked up
     [LoggedGroup EXCEPT !.test_row = FALSE, !.result_cell = Missing,
                         !.test_id_cell = Missing, !.duration_cell = Missing]}

NoResults == [present |-> FALSE, groups |-> <<>>]
ResultsTables ==
    {NoResults} \cup {[present |-> TRUE, groups |-> g] : g \in SeqsUpTo(GroupSet, MaxGroups)}
TwoTests == [present |-> TRUE, groups |-> <<GoodGroup, LoggedGroup>>]

Titles == {Missing, Element(<<" ", "M", "y", " ", "r", "e", "p", "o", "r", "t", " ">>)}

\* The documents: every blob with two tables, every table with six containers,
\* every results table with two of the environments.
Documents ==
    {[data_container |-> Container(j), table |-> t, results_table |-> TwoTests,
      title |-> Missing] : j \in JsonDatas, t \in {NoTable, FullTable}}
    \cup
    {[data_container |-> c, table |-> t, results_table |-> TwoTests, title |-> Missing] :
         c \in {NoContainer, ContainerNoBlob, ContainerBadBlob, ContainerLongBlob,
                ContainerDeepBlob, Container(FullJsonData)},
         t \in Tables}
    \cup
    {[data_container |-> c, table |-> FullTable, results_table |-> r, title |-> h] :
         c \in {NoContainer, ContainerBadBlob}, r \in ResultsTables, h \in Titles}

NoDocument ==
    [data_container |-> NoContainer, table |-> NoTable, results_table |-> NoResults,
     title |-> Missing]

(***************************************************************************)
(* The specification of execute()                                          *)
(***************************************************************************)

\* The state after __init__ (setup_clients leaves the search clients None).
Init ==
    /\ doc \in Documents
    /\ pc = "setup_file_share"
    /\ raised = "none"
    /\ test_data = NoTestData
    /\ envSource = DefaultSource
    /\ documents = <<>>
    /\ uploads = <<>>
    /\ uuids = 0
    /\ search_client = "None"
    /\ index_client = "None"
    /\ attempt = 0
    /\ index_known = FALSE
    /\ version_str = <<>>
    /\ cleaned = <<>>
    /\ data_jsonblob = <<>>
    /\ loaded = <<>>
    /\ service = "unknown"
    /\ index_warning = FALSE

Spec == Init /\ [][Next]_vars

(***************************************************************************)
(* The specification of direct calls of clean_version_string: the function *)
(* is applied to an input, then to its own result.                         *)
(***************************************************************************)

Pieces ==
    {<<":">>, <<"'">>, <<"\"">>, <<" ">>, <<"1">>, <<"p">>,
     <<"m", "a", "r">>, <<"k", "e", "r", "\\", "n">>}

RECURSIVE Concat(_)
Concat(q) == IF q = <<>> THEN <<>> ELSE Head(q) \o Concat(Tail(q))

VersionTokens == {Concat(q) : q \in SeqsUpTo(Pieces, MaxPieces)}

\* The tokens of the documented examples
Token_MarkerPytest == <<"m", "a", "r", "k", "e", "r", "\\", "n", "p", "y", "t", "e", "s", "t", ":", " ", "8", ".", "3", ".", "3">>
Token_Quoted == <<"'", "1", ".", "2", ".", "3", "'">>
Version_833 == <<"8", ".", "3", ".", "3">>
Version_123 == <<"1", ".", "2", ".", "3">>
ExampleTokens == {Token_MarkerPytest, Token_Quoted, <<>>}

InitClean ==
    /\ version_str \in VersionTokens \cup ExampleTokens
    /\ cleaned = <<>>
    /\ doc = NoDocument
    /\ pc = "clean_version_string"
    /\ raised = "none"
    /\ test_data = NoTestData
    /\ envSource = DefaultSource
    /\ documents = <<>>
    /\ uploads = <<>>
    /\ uuids = 0
    /\ search_client = "None"
    /\ index_client = "None"
    /\ attempt = 0
    /\ index_known = FALSE
    /\ data_jsonblob = <<>>
    /\ loaded = <<>>
    /\ service = "unknown"
    /\ index_warning = FALSE

\* clean_version_string(x), then clean_version_string of what it returned
Clean ==
    /\ pc = "clean_version_string"
    /\ Len(cleaned) < MaxCleans
    /\ cleaned' = Append(cleaned,
                         clean_version_string(IF cleaned = <<>> THEN version_str
                                              ELSE cleaned[Len(cleaned)]))
    /\ UNCHANGED <<doc, pc, raised, test_data, envSource, documents, uploads, uuids,
                   search_client, index_client, attempt, index_known, version_str,
                   data_jsonblob, loaded, service, index_warning>>

NextClean == Clean

SpecClean == InitClean /\ [][NextClean]_vars

(***************************************************************************)
(* clean_json_string                                                       *)
(***************************************************************************)

\* \s of the regular expressions of lines 78-79
Whitespace == PyWhitespace

\* [a-zA-Z0-9_\-]
WordChars ==
    {"a", "b", "c", "d", "e", "f", "g", "h", "i", "j", "k", "l", "m", "n", "o", "p",
     "q", "r", "s", "t", "u", "v", "w", "x", "y", "z", "A", "B", "C", "D", "E", "F",
     "G", "H", "I", "J", "K", "L", "M", "N", "O", "P", "Q", "R", "S", "T", "U", "V",
     "W", "X", "Y", "Z", "0", "1", "2", "3", "4", "5", "6", "7", "8", "9", "_", "-"}

\* s.replace(old, new), old not empty: the occurrences are found from left to
\* right, each search starting after the occurrence before it
RECURSIVE Replace(_, _, _)
Replace(s, old, new) ==
    IF ~\E i \in 1..Len(s) : MatchAt(s, i, old) THEN s
    ELSE LET k == CHOOSE i \in 1..Len(s) :
                      MatchAt(s, i, old) /\ \A j \in 1..(i - 1) : ~MatchAt(s, j, old)
         IN  SubSeq(s, 1, k - 1) \o new
                 \o Replace(SubSeq(s, k + Len(old), Len(s)), old, new)

\* ([{,]\s*)([a-zA-Z0-9_\-]+)\s*: tried at position k: where the word starts
\* and ends and where the colon has to be.  The classes that follow one
\* another share no character, so the greedy runs are the only way the pattern
\* can match at a position.
BareKey(s, k) ==
    LET ws1 == RunLen(s, k + 1, Whitespace)
        w == RunLen(s, k + 1 + ws1, WordChars)
        ws2 == RunLen(s, k + 1 + ws1 + w, Whitespace)
    IN  [from |-> k + 1 + ws1, to |-> k + ws1 + w, colon |-> k + 1 + ws1 + w + ws2]

IsBareKey(s, k) ==
    /\ s[k] \in {"{", ","}
    /\ LET m == BareKey(s, k)
       IN  m.to >= m.from /\ m.colon <= Len(s) /\ s[m.colon] = ":"

\* Line 78: re.sub(r'([{,]\s*)([a-zA-Z0-9_\-]+)\s*:', r'\1"\2":', s)
RECURSIVE QuoteBareKeys(_)
QuoteBareKeys(s) ==
    IF ~\E i \in 1..Len(s) : IsBareKey(s, i) THEN s
    ELSE LET k == CHOOSE i \in 1..Len(s) :
                      IsBareKey(s, i) /\ \A j \in 1..(i - 1) : ~IsBareKey(s, j)
             m == BareKey(s, k)
         IN  SubSeq(s, 1, m.from - 1) \o <<"\"">> \o SubSeq(s, m.from, m.to)
                 \o <<"\"", ":">> \o QuoteBareKeys(SubSeq(s, m.colon + 1, Len(s)))

\* :\s*"([^"]*)"([},]) tried at position k: where the quotes and the
\* delimiter have to be
QuotedValue(s, k) ==
    LET open == k + 1 + RunLen(s, k + 1, Whitespace)
        close == open + 1 + RunLenNot(s, open + 1, {"\""})
    IN  [open |-> open, close |-> close, delim |-> close + 1]

IsQuotedValue(s, k) ==
    /\ s[k] = ":"
    /\ LET m == QuotedValue(s, k)
       IN  /\ m.delim <= Len(s)
           /\ s[m.open] = "\"" /\ s[m.close] = "\"" /\ s[m.delim] \in {"}", ","}

\* Line 79: re.sub(r':\s*"([^"]*)"([},])', r':"\1"\2', s)
RECURSIVE TightenValues(_)
TightenValues(s) ==
    IF ~\E i \in 1..Len(s) : IsQuotedValue(s, i) THEN s
    ELSE LET k == CHOOSE i \in 1..Len(s) :
                      IsQuotedValue(s, i) /\ \A j \in 1..(i - 1) : ~IsQuotedValue(s, j)
             m == QuotedValue(s, k)
         IN  SubSeq(s, 1, k) \o SubSeq(s, m.open, m.delim)
                 \o TightenValues(SubSeq(s, m.delim + 1, Len(s)))

\* Lines 66-84
clean_json_string(json_str) ==
    LET a == StripChars(Strip(json_str), {"\""})
        b == Replace(a, <<"\\", "\"">>, <<"\"">>)
        c == Replace(b, <<"\\", "n">>, <<" ">>)
        d == Replace(c, <<"\\", "t">>, <<" ">>)
        e == QuoteBareKeys(d)
        f == TightenValues(e)
    IN  Replace(f, <<"'">>, <<"\"">>)

(***************************************************************************)
(* json.loads (CPython 3.11, strict, the C scanner).  A parsed value is    *)
(* [t, s, e, m, l]:                                                        *)
(*   "str"    s is the text                                                *)
(*   "int"    s is the decimal digits, after "-" when negative             *)
(*   "float"  the double s * 2^e, s an odd integer in hexadecimal digits,  *)
(*            after "-" when negative; s is "0" or "-0" for a zero, and    *)
(*            "inf", "-inf" or "nan" for the values that are no numbers    *)
(*   "bool"   s is "True" or "False"                                       *)
(*   "null"                                                                *)
(*   "dict"   m maps each key to its value, the last of equal keys         *)
(*   "list"   l is the sequence of the items                               *)
(* A parse is [ok, val, pos, err]: pos is the place it stopped; when ok is *)
(* FALSE, err is the exception: "JSONDecodeError", "ValueError" (an        *)
(* integer of too many digits) or "RecursionError" (nesting too deep).     *)
(***************************************************************************)

JsonWhitespace == {" ", "\t", "\n", "\r"}
Digits == {"0", "1", "2", "3", "4", "5", "6", "7", "8", "9"}

JValue(t, s, e, m, l) == [t |-> t, s |-> s, e |-> e, m |-> m, l |-> l]
JStr(s) == JValue("str", s, 0, <<>>, <<>>)
JInt(s) == JValue("int", s, 0, <<>>, <<>>)
JFloat(s, e) == JValue("float", s, e, <<>>, <<>>)
JBool(s) == JValue("bool", s, 0, <<>>, <<>>)
JNull == JValue("null", <<>>, 0, <<>>, <<>>)
JDict(m) == JValue("dict", <<>>, 0, m, <<>>)
JList(l) == JValue("list", <<>>, 0, <<>>, l)

Raised(e) == [ok |-> FALSE, val |-> JNull, pos |-> 0, err |-> e]
ParseFailed == Raised("JSONDecodeError")
Parsed(val, pos) == [ok |-> TRUE, val |-> val, pos |-> pos, err |-> "none"]

\* sys.get_int_max_str_digits(): int() of more digits raises ValueError
int_max_str_digits == 4300

\* The containers the scanner can be in at once: sys.getrecursionlimit() is
\* 1000, and the frames of the module, execute, extract_test_data, loads,
\* decode and raw_decode are in use when the scanner starts
MaxNesting == 993

\* The frames it takes to make the JSONDecodeError of an error the scanner
\* reports itself
ErrmsgFrames == 3

\* raise_errmsg with depth containers open: near the recursion limit the
\* JSONDecodeError cannot be made and RecursionError is raised in its place
Errmsg(depth) ==
    IF depth > MaxNesting - ErrmsgFrames THEN Raised("RecursionError") ELSE ParseFailed

SkipWhitespace(s, i) == i + RunLen(s, i, JsonWhitespace)

\* The characters from U+0020 to U+007E (a TLA+ string cannot hold the grave accent)
AsciiPrintable ==
    <<" ", "!", "\"", "#", "$", "%", "&", "'", "(", ")", "*", "+",
      ",", "-", ".", "/", "0", "1", "2", "3", "4", "5", "6", "7",
      "8", "9", ":", ";", "<", "=", ">", "?", "@", "A", "B", "C",
      "D", "E", "F", "G", "H", "I", "J", "K", "L", "M", "N", "O",
      "P", "Q", "R", "S", "T", "U", "V", "W", "X", "Y", "Z", "[",
      "\\", "]", "^", "_", "U+0060", "a", "b", "c", "d", "e", "f", "g",
      "h", "i", "j", "k", "l", "m", "n", "o", "p", "q", "r", "s",
      "t", "u", "v", "w", "x", "y", "z", "{", "|", "}", "~">>

\* The characters below U+0020, which a strict json string may not hold
ControlChars ==
    {"\t", "\n", "\f", "\r",
     "U+0000", "U+0001", "U+0002", "U+0003", "U+0004", "U+0005", "U+0006", "U+0007",
     "U+0008", "U+0009", "U+000A", "U+000B", "U+000C", "U+000D", "U+000E", "U+000F",
     "U+0010", "U+0011", "U+0012", "U+0013", "U+0014", "U+0015", "U+0016", "U+0017",
     "U+0018", "U+0019", "U+001A", "U+001B", "U+001C", "U+001D", "U+001E", "U+001F"}

HexDigits == <<"0", "1", "2", "3", "4", "5", "6", "7", "8", "9", "A", "B", "C", "D", "E", "F">>
HexLower == <<"0", "1", "2", "3", "4", "5", "6", "7", "8", "9", "a", "b", "c", "d", "e", "f">>

IsHex(c) == \E v \in 1..16 : HexDigits[v] = c \/ HexLower[v] = c
HexValue(c) == (CHOOSE v \in 1..16 : HexDigits[v] = c \/ HexLower[v] = c) - 1

\* The hexadecimal digits of n, most significant first (none for 0)
RECURSIVE Hex(_)
Hex(n) == IF n = 0 THEN "" ELSE Hex(n \div 16) \o HexDigits[(n % 16) + 1]

\* chr(n)
Chr(n) ==
    IF n = 9 THEN "\t"
    ELSE IF n = 10 THEN "\n"
    ELSE IF n = 12 THEN "\f"
    ELSE IF n = 13 THEN "\r"
    ELSE IF n >= 32 /\ n <= 126 THEN AsciiPrintable[n - 31]
    ELSE IF n = 0 THEN "U+0000"
    ELSE IF n < 16 THEN "U+000" \o Hex(n)
    ELSE IF n < 256 THEN "U+00" \o Hex(n)
    ELSE IF n < 4096 THEN "U+0" \o Hex(n)
    ELSE "U+" \o Hex(n)

\* Four hexadecimal digits from position i on
IsHex4(s, i) == i + 3 <= Len(s) /\ \A k \in i..(i + 3) : IsHex(s[k])
Hex4Value(s, i) ==
    4096 * HexValue(s[i]) + 256 * HexValue(s[i + 1]) + 16 * HexValue(s[i + 2])
        + HexValue(s[i + 3])

IsHighSurrogate(n) == n >= 55296 /\ n <= 56319
IsLowSurrogate(n) == n >= 56320 /\ n <= 57343

\* A \uXXXX escape whose backslash is at position i: the character and the
\* place after the escape.  A high surrogate takes the low surrogate escape
\* that follows it; the scanner looks for one only when at least seven
\* characters follow the first escape.
ParseUnicodeEscape(s, i) ==
    IF ~IsHex4(s, i + 2) THEN ParseFailed
    ELSE
      LET c == Hex4Value(s, i + 2)
          paired == /\ IsHighSurrogate(c)
                    /\ i + 12 <= Len(s)
                    /\ s[i + 6] = "\\" /\ s[i + 7] = "u"
      IN  IF ~paired THEN Parsed(Chr(c), i + 6)
          ELSE IF ~IsHex4(s, i + 8) THEN ParseFailed
          ELSE IF IsLowSurrogate(Hex4Value(s, i + 8))
              THEN Parsed(Chr(65536 + (c - 55296) * 1024 + (Hex4Value(s, i + 8) - 56320)),
                          i + 12)
          ELSE Parsed(Chr(c), i + 6)

\* The character an escape \e stands for; <<>> when json rejects the escape
Unescape(e) ==
    CASE e = "\"" -> <<"\"">>
      [] e = "\\" -> <<"\\">>
      [] e = "/" -> <<"/">>
      [] e = "b" -> <<"U+0008">>
      [] e = "f" -> <<"\f">>
      [] e = "n" -> <<"\n">>
      [] e = "r" -> <<"\r">>
      [] e = "t" -> <<"\t">>
      [] OTHER -> <<>>

\* The rest of a string from position i, after its opening quote; depth
\* containers are open
RECURSIVE ParseStringBody(_, _, _, _)
ParseStringBody(s, i, acc, depth) ==
    LET k == i + RunLenNot(s, i, {"\"", "\\"} \cup ControlChars)
        text == acc \o SubSeq(s, i, k - 1)
    IN  IF k > Len(s) THEN Errmsg(depth)
        ELSE IF s[k] = "\"" THEN Parsed(JStr(text), k + 1)
        ELSE IF s[k] \in ControlChars THEN Errmsg(depth)
        ELSE IF k + 1 > Len(s) THEN Errmsg(depth)
        ELSE IF s[k + 1] = "u"
            THEN LET u == ParseUnicodeEscape(s, k)
                 IN  IF u.ok THEN ParseStringBody(s, u.pos, Append(text, u.val), depth)
                     ELSE Errmsg(depth)
        ELSE IF Unescape(s[k + 1]) = <<>> THEN Errmsg(depth)
        ELSE ParseStringBody(s, k + 2, text \o Unescape(s[k + 1]), depth)

(***************************************************************************)
(* float(): the double nearest to a decimal number, ties to the even       *)
(* mantissa.  The arithmetic is on naturals of any size, each the sequence *)
(* of its digits in base Base, the least significant first and the most    *)
(* significant not zero (the empty sequence is 0).                         *)
(***************************************************************************)

LimbBits == 15
Base == 2^LimbBits

\* The bits of the mantissa of a double, the exponent of its smallest
\* positive value, and the power of two no double reaches
MantissaBits == 53
MinExponent == -1074
MaxExponent == 1024

Zeros(n) == [i \in 1..n |-> 0]

\* x * m + c, digit by digit, for m and c below Base
RECURSIVE MulSmallCarry(_, _, _)
MulSmallCarry(x, m, c) ==
    IF x = <<>> THEN [limbs |-> <<>>, carry |-> c]
    ELSE IF Len(x) = 1
        THEN [limbs |-> <<(x[1] * m + c) % Base>>, carry |-> (x[1] * m + c) \div Base]
    ELSE LET h == Len(x) \div 2
             lo == MulSmallCarry(SubSeq(x, 1, h), m, c)
             hi == MulSmallCarry(SubSeq(x, h + 1, Len(x)), m, lo.carry)
         IN  [limbs |-> lo.limbs \o hi.limbs, carry |-> hi.carry]

MulSmall(x, m, c) ==
    LET r == MulSmallCarry(x, m, c) IN RStripChars(r.limbs \o <<r.carry>>, {0})

\* a + b + c for a and b of one length
RECURSIVE AddCarry(_, _, _)
AddCarry(a, b, c) ==
    IF a = <<>> THEN [limbs |-> <<>>, carry |-> c]
    ELSE IF Len(a) = 1
        THEN [limbs |-> <<(a[1] + b[1] + c) % Base>>, carry |-> (a[1] + b[1] + c) \div Base]
    ELSE LET h == Len(a) \div 2
             lo == AddCarry(SubSeq(a, 1, h), SubSeq(b, 1, h), c)
             hi == AddCarry(SubSeq(a, h + 1, Len(a)), SubSeq(b, h + 1, Len(a)), lo.carry)
         IN  [limbs |-> lo.limbs \o hi.limbs, carry |-> hi.carry]

Add(a, b) ==
    LET n == IF Len(a) >= Len(b) THEN Len(a) ELSE Len(b)
        r == AddCarry(a \o Zeros(n - Len(a)), b \o Zeros(n - Len(b)), 0)
    IN  RStripChars(r.limbs \o <<r.carry>>, {0})

\* a - b - c for a and b of one length
RECURSIVE SubBorrow(_, _, _)
SubBorrow(a, b, c) ==
    IF a = <<>> THEN [limbs |-> <<>>, carry |-> c]
    ELSE IF Len(a) = 1
        THEN LET t == a[1] - b[1] - c
             IN  [limbs |-> <<IF t < 0 THEN t + Base ELSE t>>,
                  carry |-> IF t < 0 THEN 1 ELSE 0]
    ELSE LET h == Len(a) \div 2
             lo == SubBorrow(SubSeq(a, 1, h), SubSeq(b, 1, h), c)
             hi == SubBorrow(SubSeq(a, h + 1, Len(a)), SubSeq(b, h + 1, Len(a)), lo.carry)
         IN  [limbs |-> lo.limbs \o hi.limbs, carry |-> hi.carry]

\* a - b, for a >= b
Sub(a, b) == RStripChars(SubBorrow(a, b \o Zeros(Len(a) - Len(b)), 0).limbs, {0})

\* a >= b
Ge(a, b) ==
    IF Len(a) # Len(b) THEN Len(a) > Len(b)
    ELSE LET k == CHOOSE i \in 0..Len(a) :
                      /\ i = 0 \/ a[i] # b[i]
                      /\ \A j \in (i + 1)..Len(a) : a[j] = b[j]
         IN  k = 0 \/ a[k] > b[k]

\* The number of bits of x
BitLength(x) ==
    IF x = <<>> THEN 0
    ELSE LimbBits * (Len(x) - 1)
             + (CHOOSE k \in 1..LimbBits : 2^(k - 1) <= x[Len(x)] /\ x[Len(x)] < 2^k)

\* x * 2^n
ShiftLeft(x, n) ==
    IF x = <<>> THEN <<>>
    ELSE Zeros(n \div LimbBits) \o MulSmall(x, 2^(n % LimbBits), 0)

\* x * 10^k
RECURSIVE Times10Pow(_, _)
Times10Pow(x, k) ==
    IF x = <<>> THEN <<>>
    ELSE IF k <= 4 THEN MulSmall(x, 10^k, 0)
    ELSE Times10Pow(Times10Pow(x, k \div 2), k - (k \div 2))

\* int(digits), for a few digits
RECURSIVE ToNat(_)
ToNat(digits) ==
    IF digits = <<>> THEN 0
    ELSE 10 * ToNat(SubSeq(digits, 1, Len(digits) - 1)) + HexValue(digits[Len(digits)])

\* The natural that digits writes
RECURSIVE FromDigits(_)
FromDigits(digits) ==
    IF Len(digits) <= 4 THEN MulSmall(<<>>, 1, ToNat(digits))
    ELSE LET h == Len(digits) \div 2
         IN  Add(Times10Pow(FromDigits(SubSeq(digits, 1, Len(digits) - h)), h),
                 FromDigits(SubSeq(digits, Len(digits) - h + 1, Len(digits))))

\* The bits from 2^hi down to 2^lo of the quotient r / den, which is below
\* 2^(hi + 1) and a multiple of 2^lo but for the remainder, the most
\* significant first, and the remainder
RECURSIVE DivideBits(_, _, _, _)
DivideBits(r, den, hi, lo) ==
    IF hi = lo
        THEN LET d == ShiftLeft(den, hi)
             IN  IF Ge(r, d) THEN [bits |-> <<1>>, rem |-> Sub(r, d)]
                 ELSE [bits |-> <<0>>, rem |-> r]
    ELSE LET mid == (hi + lo) \div 2
             top == DivideBits(r, den, hi, mid + 1)
             low == DivideBits(top.rem, den, mid, lo)
         IN  [bits |-> top.bits \o low.bits, rem |-> low.rem]

\* bits + 1, for bits the most significant first
Increment(bits) ==
    LET ones == RunLenBack(bits, {1})
    IN  IF ones = Len(bits) THEN <<1>> \o Zeros(ones)
        ELSE SubSeq(bits, 1, Len(bits) - ones - 1) \o <<1>> \o Zeros(ones)

\* The hexadecimal digits of bits, whose first is 1
HexOfBits(bits) ==
    LET b == Zeros((4 - (Len(bits) % 4)) % 4) \o bits
    IN  [i \in 1..(Len(b) \div 4) |->
            HexLower[8 * b[4 * i - 3] + 4 * b[4 * i - 2] + 2 * b[4 * i - 1] + b[4 * i] + 1]]

\* A decimal number of magnitude m is at least 10^(m - 1) and below 10^m:
\* above MaxMagnitude it is beyond every double, below MinMagnitude it is
\* less than half the smallest one
MaxMagnitude == 309
MinMagnitude == -323

\* digits * 10^e10 as a fraction
Ratio(digits, e10) ==
    IF e10 >= 0 THEN [num |-> Times10Pow(FromDigits(digits), e10), den |-> <<1>>]
    ELSE [num |-> FromDigits(digits), den |-> Times10Pow(<<1>>, 0 - e10)]

\* The bits and the remainder of the quotient num / (den * 2^p), which has
\* three or four bits more than a mantissa
ScaledQuotient(num, den, p) ==
    IF p >= 0 THEN DivideBits(num, ShiftLeft(den, p), MantissaBits + 3, 0)
    ELSE DivideBits(ShiftLeft(num, 0 - p), den, MantissaBits + 3, 0)

\* bits without its last drop bits, rounded to the nearest, a tie to the even;
\* inexact tells that the number has more bits than these
RoundBits(bits, inexact, drop) ==
    LET kept == IF drop >= Len(bits) THEN <<>> ELSE SubSeq(bits, 1, Len(bits) - drop)
        half == drop <= Len(bits) /\ bits[Len(bits) - drop + 1] = 1
        sticky == inexact \/ \E i \in (Len(bits) - drop + 2)..Len(bits) : i >= 1 /\ bits[i] = 1
        odd == kept # <<>> /\ kept[Len(kept)] = 1
    IN  IF half /\ (sticky \/ odd) THEN Increment(kept) ELSE kept

\* The double m * 2^u, for the bits m of a mantissa, the first of them 1
DoubleOf(sign, m, u) ==
    IF m = <<>> THEN JFloat(sign \o <<"0">>, 0)
    ELSE IF Len(m) + u > MaxExponent THEN JFloat(sign \o <<"i", "n", "f">>, 0)
    ELSE JFloat(sign \o HexOfBits(RStripChars(m, {0})), u + RunLenBack(m, {0}))

\* The double nearest to the number whose quotient by 2^p is bits, and more
\* when inexact; u is the exponent of the last bit of a mantissa that starts
\* with the first 1 of bits
RoundTo(sign, bits, inexact, p, u) ==
    DoubleOf(sign,
             LStripChars(RoundBits(bits, inexact,
                                   (IF u >= MinExponent THEN u ELSE MinExponent) - p), {0}),
             IF u >= MinExponent THEN u ELSE MinExponent)

\* The double nearest to num / den, where 2^p is the power of two that
\* ScaledQuotient asks for
RoundQuotient(sign, num, den, p) ==
    LET q == ScaledQuotient(num, den, p)
    IN  RoundTo(sign, q.bits, q.rem # <<>>, p,
                p + Len(q.bits) - RunLen(q.bits, 1, {0}) - MantissaBits)

\* The double nearest to digits * 10^e10, for digits that start with no zero
NearestDouble(sign, digits, e10) ==
    LET r == Ratio(digits, e10)
    IN  RoundQuotient(sign, r.num, r.den,
                      BitLength(r.num) - BitLength(r.den) - (MantissaBits + 3))

\* The natural n, which is below Base^3
Limbs(n) == RStripChars(<<n % Base, (n \div Base) % Base, n \div (Base * Base)>>, {0})

\* float() of a number text: its sign, the digits of its integer part, of its
\* fraction and of its exponent, and the sign of the exponent.  An exponent
\* of any size is taken as written: one that is beyond the digits of the
\* number by more than the magnitudes of the doubles gives an infinity or a
\* zero, any other is a small integer.
FloatOf(negative, int_digits, frac_digits, exp_negative, exp_digits) ==
    LET all == LStripChars(int_digits \o frac_digits, {"0"})
        digits == RStripChars(all, {"0"})
        sign == IF negative THEN <<"-">> ELSE <<>>
        beyond == Ge(FromDigits(exp_digits),
                     Limbs(Len(int_digits) + Len(frac_digits) + 1 - MinMagnitude))
        exponent == ToNat(LStripChars(exp_digits, {"0"}))
        e10 == (IF exp_negative THEN 0 - exponent ELSE exponent)
                   - Len(frac_digits) + (Len(all) - Len(digits))
        magnitude == Len(digits) + e10
    IN  IF digits = <<>> THEN JFloat(sign \o <<"0">>, 0)
        ELSE IF beyond
            THEN IF exp_negative THEN JFloat(sign \o <<"0">>, 0)
                 ELSE JFloat(sign \o <<"i", "n", "f">>, 0)
        ELSE IF magnitude < MinMagnitude THEN JFloat(sign \o <<"0">>, 0)
        ELSE IF magnitude > MaxMagnitude THEN JFloat(sign \o <<"i", "n", "f">>, 0)
        ELSE NearestDouble(sign, digits, e10)

\* NUMBER_RE at position i: (-?(?:0|[1-9]\d*))(\.\d+)?([eE][-+]?\d+)?
\* A text without fraction and exponent goes to int(), which raises
\* ValueError for more than int_max_str_digits digits; any other to float().
ParseNumber(s, i) ==
    LET At(k) == IF k <= Len(s) THEN s[k] ELSE ""
        negative == At(i) = "-"
        first == IF negative THEN i + 1 ELSE i
        n == IF At(first) = "0" THEN 1 ELSE RunLen(s, first, Digits)
        dot == first + n
        f == IF At(dot) = "." THEN RunLen(s, dot + 1, Digits) ELSE 0
        exp == IF f = 0 THEN dot ELSE dot + 1 + f
        signed == At(exp + 1) \in {"-", "+"}
        exp_first == IF signed THEN exp + 2 ELSE exp + 1
        x == IF At(exp) \in {"e", "E"} THEN RunLen(s, exp_first, Digits) ELSE 0
        int_digits == SubSeq(s, first, first + n - 1)
    IN  IF n = 0 THEN ParseFailed
        ELSE IF f = 0 /\ x = 0
            THEN IF n > int_max_str_digits THEN Raised("ValueError")
                 ELSE Parsed(JInt(IF negative /\ int_digits # <<"0">>
                                      THEN <<"-">> \o int_digits ELSE int_digits),
                             dot)
        ELSE Parsed(FloatOf(negative, int_digits, SubSeq(s, dot + 1, dot + f),
                            At(exp + 1) = "-", SubSeq(s, exp_first, exp_first + x - 1)),
                    IF x = 0 THEN exp ELSE exp_first + x)

T_Infinity == <<"I", "n", "f", "i", "n", "i", "t", "y">>

\* One of the texts that the scanner hands to parse_constant starts at i
IsConstant(s, i) ==
    \/ MatchAt(s, i, <<"N", "a", "N">>)
    \/ MatchAt(s, i, T_Infinity)
    \/ MatchAt(s, i, <<"-">> \o T_Infinity)

RECURSIVE ParseValue(_, _, _)
RECURSIVE ParseMembers(_, _, _, _)
RECURSIVE ParseItems(_, _, _, _)

\* The members of an object from position i, where a key is to start; depth
\* containers are open, this object among them
ParseMembers(s, i, m, depth) ==
    IF i > Len(s) \/ s[i] # "\"" THEN Errmsg(depth)
    ELSE
      LET key == ParseStringBody(s, i + 1, <<>>, depth)
          colon == SkipWhitespace(s, key.pos)
      IN  IF ~key.ok THEN key
          ELSE IF colon > Len(s) \/ s[colon] # ":" THEN Errmsg(depth)
          ELSE
            LET v == ParseValue(s, SkipWhitespace(s, colon + 1), depth)
                next == SkipWhitespace(s, v.pos)
                m2 == (key.val.s :> v.val) @@ m
            IN  IF ~v.ok THEN v
                ELSE IF next > Len(s) THEN Errmsg(depth)
                ELSE IF s[next] = "}" THEN Parsed(JDict(m2), next + 1)
                ELSE IF s[next] = ","
                    THEN ParseMembers(s, SkipWhitespace(s, next + 1), m2, depth)
                ELSE Errmsg(depth)

\* The items of an array from position i, where an item is to start; depth
\* containers are open, this array among them
ParseItems(s, i, l, depth) ==
    LET v == ParseValue(s, i, depth)
        next == SkipWhitespace(s, v.pos)
    IN  IF ~v.ok THEN v
        ELSE IF next > Len(s) THEN Errmsg(depth)
        ELSE IF s[next] = "]" THEN Parsed(JList(Append(l, v.val)), next + 1)
        ELSE IF s[next] = ","
            THEN ParseItems(s, SkipWhitespace(s, next + 1), Append(l, v.val), depth)
        ELSE Errmsg(depth)

\* scan_once at position i, with depth containers open.  Where no value
\* starts the scanner raises StopIteration, which raw_decode turns into
\* JSONDecodeError at any depth; one container more than MaxNesting raises
\* RecursionError, and so does NaN, Infinity or -Infinity in MaxNesting
\* containers, which the scanner hands to parse_constant: that call takes the
\* place of one container.  A string, a number, true, false and null are made
\* by the scanner itself.
ParseValue(s, i, depth) ==
    IF i > Len(s) THEN ParseFailed
    ELSE IF s[i] = "\"" THEN ParseStringBody(s, i + 1, <<>>, depth)
    ELSE IF s[i] \in {"{", "["} /\ depth + 1 > MaxNesting THEN Raised("RecursionError")
    ELSE IF s[i] = "{"
        THEN LET j == SkipWhitespace(s, i + 1)
             IN  IF j <= Len(s) /\ s[j] = "}" THEN Parsed(JDict(<<>>), j + 1)
                 ELSE ParseMembers(s, j, <<>>, depth + 1)
    ELSE IF s[i] = "["
        THEN LET j == SkipWhitespace(s, i + 1)
             IN  IF j <= Len(s) /\ s[j] = "]" THEN Parsed(JList(<<>>), j + 1)
                 ELSE ParseItems(s, j, <<>>, depth + 1)
    ELSE IF MatchAt(s, i, <<"n", "u", "l", "l">>) THEN Parsed(JNull, i + 4)
    ELSE IF MatchAt(s, i, <<"t", "r", "u", "e">>)
        THEN Parsed(JBool(<<"T", "r", "u", "e">>), i + 4)
    ELSE IF MatchAt(s, i, <<"f", "a", "l", "s", "e">>)
        THEN Parsed(JBool(<<"F", "a", "l", "s", "e">>), i + 5)
    ELSE IF IsConstant(s, i) /\ depth + 1 > MaxNesting THEN Raised("RecursionError")
    ELSE IF MatchAt(s, i, <<"N", "a", "N">>) THEN Parsed(JFloat(<<"n", "a", "n">>, 0), i + 3)
    ELSE IF MatchAt(s, i, T_Infinity) THEN Parsed(JFloat(<<"i", "n", "f">>, 0), i + 8)
    ELSE IF MatchAt(s, i, <<"-">> \o T_Infinity)
        THEN Parsed(JFloat(<<"-", "i", "n", "f">>, 0), i + 9)
    ELSE ParseNumber(s, i)

\* json.loads(s): when ok is FALSE, err is the exception it raises
JsonLoads(s) ==
    LET v == ParseValue(s, SkipWhitespace(s, 1), 0)
    IN  IF ~v.ok \/ SkipWhitespace(s, v.pos) = Len(s) + 1 THEN v ELSE ParseFailed

(***************************************************************************)
(* The specification of a direct load of a data-jsonblob attribute: the    *)
(* blob is a valid JSON object whose string value is made of pieces, or an *)
(* object that holds an integer of one digit more than int() takes.        *)
(***************************************************************************)

MaxBlobPieces == 3

\* x, an apostrophe, an escaped double quote, text of the form ", name:",
\* a space, an escaped newline, a colon and a digit
BlobPieces ==
    {<<"x">>, <<"'">>, <<"\\", "\"">>, <<",", " ", "n", "a", "m", "e", ":">>,
     <<" ">>, <<"\\", "n">>, <<":">>, <<"1">>}

BlobTexts == {Concat(q) : q \in SeqsUpTo(BlobPieces, MaxBlobPieces)}

\* {"a":"C"}
Blob_Compact(c) == <<"{", "\"", "a", "\"", ":", "\"">> \o c \o <<"\"", "}">>
\* { "a" : "C" } with a newline before and after
Blob_Spaced(c) == <<"\n", "{", " ", "\"", "a", "\"", " ", ":", " ", "\"">> \o c \o <<"\"", " ", "}", "\n">>
\* {"environment":{"Python":"C"}}
Blob_Environment(c) == <<"{", "\"", "e", "n", "v", "i", "r", "o", "n", "m", "e", "n", "t", "\"", ":", "{", "\"", "P", "y", "t", "h", "o", "n", "\"", ":", "\"">> \o c \o <<"\"", "}", "}">>
\* {"n": 1, "a": "C"}
Blob_TwoMembers(c) == <<"{", "\"", "n", "\"", ":", " ", "1", ",", " ", "\"", "a", "\"", ":", " ", "\"">> \o c \o <<"\"", "}">>

Blobs ==
    UNION {{Blob_Compact(c), Blob_Spaced(c), Blob_Environment(c), Blob_TwoMembers(c)} :
           c \in BlobTexts}

\* {"environment":{"Python":1...1}}
Blob_LongInteger ==
    <<"{", "\"", "e", "n", "v", "i", "r", "o", "n", "m", "e", "n", "t", "\"", ":", "{", "\"", "P", "y", "t", "h", "o", "n", "\"", ":">> \o [i \in 1..(int_max_str_digits + 1) |-> "1"] \o <<"}", "}">>

InitJson ==
    /\ data_jsonblob \in Blobs \cup {Blob_LongInteger}
    /\ loaded = <<>>
    /\ pc = "json.loads"
    /\ version_str = <<>>
    /\ cleaned = <<>>
    /\ doc = NoDocument
    /\ raised = "none"
    /\ test_data = NoTestData
    /\ envSource = DefaultSource
    /\ documents = <<>>
    /\ uploads = <<>>
    /\ uuids = 0
    /\ search_client = "None"
    /\ index_client = "None"
    /\ attempt = 0
    /\ index_known = FALSE
    /\ service = "unknown"
    /\ index_warning = FALSE

\* The outcome r of json.loads is kept in loaded
Returned(r) ==
    r.ok /\ loaded' = Append(loaded, [exception |-> "none", json_data |-> r.val])
RaisedOther(r) ==
    /\ r.err \in {"ValueError", "RecursionError"}
    /\ loaded' = Append(loaded, [exception |-> r.err, json_data |-> JNull])

\* Lines 332-341: the blob is cleaned and parsed, the JSON path goes on
LoadsReturns ==
    /\ pc = "json.loads"
    /\ Returned(JsonLoads(clean_json_string(data_jsonblob)))
    /\ pc' = "json_path"
    /\ UNCHANGED <<doc, raised, test_data, envSource, documents, uploads, uuids,
                   search_client, index_client, attempt, index_known, version_str, cleaned,
                   data_jsonblob, service, index_warning>>

\* Lines 374-379: json.loads raised JSONDecodeError, the HTML fallback goes on
LoadsRaises ==
    /\ pc = "json.loads"
    /\ JsonLoads(clean_json_string(data_jsonblob)).err = "JSONDecodeError"
    /\ loaded' = Append(loaded, [exception |-> "JSONDecodeError", json_data |-> JNull])
    /\ pc' = "html_fallback"
    /\ UNCHANGED <<doc, raised, test_data, envSource, documents, uploads, uuids,
                   search_client, index_client, attempt, index_known, version_str, cleaned,
                   data_jsonblob, service, index_warning>>

\* Lines 407-408: json.loads raised another exception, which is printed; the
\* environment keeps its defaults and the table is not read
LoadsRaisesOther ==
    /\ pc = "json.loads"
    /\ RaisedOther(JsonLoads(clean_json_string(data_jsonblob)))
    /\ pc' = "parse_results"
    /\ UNCHANGED <<doc, raised, test_data, envSource, documents, uploads, uuids,
                   search_client, index_client, attempt, index_known, version_str, cleaned,
                   data_jsonblob, service, index_warning>>

NextJson == LoadsReturns \/ LoadsRaises \/ LoadsRaisesOther

SpecJson == InitJson /\ [][NextJson]_vars


(***************************************************************************)
(* execute() under fairness: every call of execute returns or raises, so a *)
(* step that can be taken is taken.  A few documents, with and without     *)
(* tests and a title.                                                      *)
(***************************************************************************)

FairDocuments ==
    {[data_container |-> NoContainer, table |-> FullTable, results_table |-> r,
      title |-> h] : r \in {NoResults, TwoTests}, h \in Titles}

InitFair == Init /\ doc \in FairDocuments

SpecFair == InitFair /\ [][Next]_vars /\ WF_vars(Next)


(***************************************************************************)
(* Properties                                                              *)
(***************************************************************************)

\* extract_test_data has returned in this run
Extracted ==
    \/ pc \in {"ensure_search_service_exists", "admin_key", "create_search_index",
               "index_test_results", "done"}
    \/ pc = "failed" /\ raised \notin {"setup_file_share", "extract_test_data"}

\* index_test_results has built its documents in this run
Built == pc = "done" \/ (pc = "failed" /\ raised = "index_test_results")

HasBlob == doc.data_container.present /\ doc.data_container.has_blob
BlobParsed == HasBlob /\ doc.data_container.loads.exception = "none"
BlobUnparseable == HasBlob /\ doc.data_container.loads.exception # "none"
BlobDecodeError == HasBlob /\ doc.data_container.loads.exception = "JSONDecodeError"

\* The groups of the document, and those with the primary row and its three cells
Groups == IF doc.results_table.present THEN doc.results_table.groups ELSE <<>>
Complete(g) ==
    g.test_row /\ g.result_cell.present /\ g.test_id_cell.present /\ g.duration_cell.present

\* The field of extract_environment_from_html's result that belongs to field f
HtmlField(html_env, f) ==
    CASE f = "python" -> html_env["Python"]
      [] f = "platform" -> html_env["Platform"]
      [] f = "platform_type" -> html_env["PLATFORM"]
      [] f = "base_url" -> html_env["Base URL"]
      [] f = "packages.pytest" -> html_env["Packages"]["pytest"]
      [] f = "packages.pluggy" -> html_env["Packages"]["pluggy"]
      [] f = "plugins.base_url" -> html_env["plugins"]["base-url"]
      [] f = "plugins.playwright" -> html_env["plugins"]["playwright"]
      [] f = "plugins.asyncio" -> html_env["plugins"]["asyncio"]
      [] f = "plugins.html" -> html_env["plugins"]["html"]
      [] f = "plugins.metadata" -> html_env["plugins"]["metadata"]

\* C1: clean_version_string is idempotent: cleaning the result of a cleaning
\* returns it unchanged, for every input.
C1_CleanIdempotent ==
    Len(cleaned) >= 2 => cleaned[2] = cleaned[1]

\* C2: with no data container, or one without the data-jsonblob attribute, the
\* environment record holds what the environment table gives.
C2_NoBlobUsesTable ==
    (Extracted /\ ~HasBlob) =>
        \A f \in EnvFields :
            Field(test_data.environment, f)
                = PyS(HtmlField(extract_environment_from_html(doc.table), f))

\* C3: fallback parity: when the blob does not parse, every field of the
\* environment record equals the field extract_environment_from_html returns.
C3_FallbackParity ==
    (Extracted /\ BlobUnparseable) =>
        \A f \in EnvFields :
            Field(test_data.environment, f)
                = PyS(HtmlField(extract_environment_from_html(doc.table), f))

\* C4: one source only: when the blob parsed, no field comes from the table and
\* the record is the same whatever the table holds; a field comes from the table
\* only when the parse raised the decode error, and then no field comes from JSON.
C4_OneSource ==
    Extracted =>
        /\ BlobParsed =>
              /\ \A f \in EnvFields : envSource[f] # "html"
              /\ \A t \in {NoTable, FullTable} :
                    ExtractEnvironment([doc EXCEPT !.table = t]).environment
                        = test_data.environment
        /\ (\E f \in EnvFields : envSource[f] = "html") =>
              /\ BlobDecodeError
              /\ \A f \in EnvFields : envSource[f] # "json"

\* C4's case: the blob parsed and gave the interpreter version, next to a table
\* that names another one.
C4_Witness ==
    /\ Extracted /\ BlobParsed
    /\ doc.table = FullTable
    /\ test_data.environment.python = PyS(V_Python)
    /\ envSource["python"] = "json"
    /\ envSource["packages.pytest"] = "default"

\* C5: every one of the eleven fields of the environment record is a string, and
\* a value that is null or absent in the blob is the empty string in the record.
C5_AllFieldsStrings ==
    Extracted =>
        /\ \A f \in EnvFields : Field(test_data.environment, f).t = "str"
        /\ (BlobParsed /\ envSource["python"] = "json"
              /\ doc.data_container.loads.json_data.environment.top["Python"].t
                     \in {"absent", "none"})
              => test_data.environment.python = PyS(<<>>)
        /\ (BlobParsed /\ envSource["packages.pytest"] = "json"
              /\ doc.data_container.loads.json_data.environment.Packages.items["pytest"].t
                     \in {"absent", "none"})
              => test_data.environment.packages.pytest = PyS(<<>>)

\* C6: every record comes from a group that has the primary row and all three of
\* the result, identifier and duration cells, and holds their texts; a group that
\* lacks any of them gives no record.
C6_OnlyCompleteGroups ==
    Extracted =>
        /\ \A i \in 1..Len(test_data.tests) :
              /\ Len(test_data.tests[i].value) = 1
              /\ LET rec == test_data.tests[i].value[1]
                 IN  \E k \in 1..Len(Groups) :
                        /\ Complete(Groups[k])
                        /\ rec.result = Strip(Groups[k].result_cell.text)
                        /\ rec.testId = Strip(Groups[k].test_id_cell.text)
                        /\ rec.duration = Strip(Groups[k].duration_cell.text)
        /\ {test_data.tests[i].key : i \in 1..Len(test_data.tests)}
              = {Strip(Groups[k].test_id_cell.text) :
                     k \in {j \in 1..Len(Groups) : Complete(Groups[j])}}

\* C6's case: a group without its duration cell next to a complete one, and the
\* one record of the complete group.
C6_Witness ==
    /\ Extracted
    /\ Len(Groups) = 2
    /\ \E k \in 1..2 : Groups[k].test_row /\ Groups[k].result_cell.present
                       /\ Groups[k].test_id_cell.present /\ ~Groups[k].duration_cell.present
    /\ Len(test_data.tests) = 1

\* C7: one index document per test record, in the order of the records, and no
\* two documents of the batch with the same id.
C7_OneDocumentPerRecord ==
    Built =>
        /\ Len(documents) = Len(test_data.tests)
        /\ \A i \in 1..Len(documents) :
              /\ documents[i].testId = test_data.tests[i].value[1].testId
              /\ documents[i].result = test_data.tests[i].value[1].result
              /\ documents[i].duration = test_data.tests[i].value[1].duration
        /\ \A i, j \in 1..Len(documents) : i # j => documents[i].id # documents[j].id

\* C7's case: a report with two test records, indexed.
C7_Witness ==
    /\ pc = "done"
    /\ Len(test_data.tests) = 2
    /\ Len(documents) = 2
    /\ documents[1].testId # documents[2].testId

\* C8: the environment of every index document equals, field by field, the
\* environment record of the report.
C8_EnvironmentCopied ==
    Built =>
        \A i \in 1..Len(documents) : \A f \in EnvFields :
            Field(documents[i].environment, f) = Field(test_data.environment, f)

\* C9: all or nothing: when extract_test_data raises, execute fails and nothing
\* is uploaded; upload_documents is called at most once, after every document
\* was built, with all the documents of the report.
C9_AllOrNothing ==
    /\ raised = "extract_test_data" =>
          pc = "failed" /\ uploads = <<>> /\ documents = <<>>
    /\ Len(uploads) <= 1
    /\ uploads # <<>> => Built
    /\ \A b \in 1..Len(uploads) :
          /\ uploads[b] = documents
          /\ Len(uploads[b]) = Len(test_data.tests)

\* C9's case: extract_test_data raised on a report that has test records.
C9_Witness ==
    /\ raised = "extract_test_data"
    /\ pc = "failed"
    /\ doc.results_table = TwoTests

\* The last complete group of the document whose identifier is id
LastGroup(id) ==
    LET ks == {k \in 1..Len(Groups) :
                  Complete(Groups[k]) /\ Strip(Groups[k].test_id_cell.text) = id}
    IN  Groups[CHOOSE k \in ks : \A j \in ks : j <= k]

\* C10: the record of a group without a log element has the log "No log output
\* captured.", the record of a group with one has its trimmed text, and the index
\* document carries the log of the record.
C10_LogDefault ==
    /\ Extracted =>
          \A i \in 1..Len(test_data.tests) :
              LET rec == test_data.tests[i].value[1]
                  g == LastGroup(test_data.tests[i].key)
              IN  rec.log = IF g.log_div.present THEN Strip(g.log_div.text) ELSE T_NoLog
    /\ Built =>
          \A i \in 1..Len(documents) : documents[i].log = test_data.tests[i].value[1].log

\* C10's case: a document built from a group without a log element and one built
\* from a group with a log element.
C10_Witness ==
    /\ Built
    /\ Len(documents) = 2
    /\ ~LastGroup(documents[1].testId).log_div.present
    /\ documents[1].log = T_NoLog
    /\ LastGroup(documents[2].testId).log_div.present
    /\ documents[2].log = <<"b", "o", "o", "m">>

\* The positions of x that a marker occurrence covers or that hold a quote
Removed(x) ==
    {i \in 1..Len(x) :
        \/ x[i] \in {"'", "\""}
        \/ \E b \in 1..i : i < b + Len(MarkerText) /\ MatchAt(x, b, MarkerText)}

\* The characters of x at the positions of the set keep, in their order
RECURSIVE Kept(_, _, _)
Kept(x, keep, i) ==
    IF i > Len(x) THEN <<>>
    ELSE (IF i \in keep THEN <<x[i]>> ELSE <<>>) \o Kept(x, keep, i + 1)

\* x without its leading and trailing whitespace
Trimmed(x) ==
    LET ink == {i \in 1..Len(x) : ~IsSpace(x[i])}
    IN  IF ink = {} THEN <<>>
        ELSE SubSeq(x, CHOOSE i \in ink : \A j \in ink : i <= j,
                       CHOOSE i \in ink : \A j \in ink : j <= i)

\* The documented result of cleaning x
CleanReference(x) ==
    IF x = <<>> THEN <<>>
    ELSE LET a == Kept(x, (1..Len(x)) \ Removed(x), 1)
             colons == {i \in 1..Len(a) : a[i] = ":"}
             b == IF colons = {} THEN a
                  ELSE SubSeq(a, (CHOOSE i \in colons : \A j \in colons : i <= j) + 1, Len(a))
         IN  Trimmed(b)

\* C11: clean_version_string(x) is the documented result for every x: markers
\* and quotes removed, the text after the first colon kept, whitespace trimmed;
\* the marker/pytest example gives 8.3.3, the quoted example 1.2.3, the empty
\* token the empty text.
C11_CleanIsReference ==
    Len(cleaned) >= 1 =>
        /\ cleaned[1] = CleanReference(version_str)
        /\ version_str = Token_MarkerPytest => cleaned[1] = Version_833
        /\ version_str = Token_Quoted => cleaned[1] = Version_123
        /\ version_str = <<>> => cleaned[1] = <<>>

\* C11's case: the marker/pytest example was cleaned.
C11_Witness ==
    /\ version_str = Token_MarkerPytest
    /\ Len(cleaned) >= 1
    /\ cleaned[1] = Version_833

\* The complete groups of the document, by their place
CompleteGroups == {k \in 1..Len(Groups) : Complete(Groups[k])}

\* C12: the tests collection holds one record per distinct identifier of the
\* complete groups: the identifiers are pairwise different, and of several
\* complete groups with one identifier the record of the last one is kept.
C12_OneRecordPerIdentifier ==
    Extracted =>
        /\ \A i, j \in 1..Len(test_data.tests) :
              i # j => /\ test_data.tests[i].key # test_data.tests[j].key
                       /\ test_data.tests[i].value[1].testId
                              # test_data.tests[j].value[1].testId
        /\ Len(test_data.tests)
              = Cardinality({Strip(Groups[k].test_id_cell.text) : k \in CompleteGroups})
        /\ Len(test_data.tests) <= Cardinality(CompleteGroups)
        /\ \A i \in 1..Len(test_data.tests) :
              LET rec == test_data.tests[i].value[1]
                  g == LastGroup(test_data.tests[i].key)
              IN  /\ rec.testId = test_data.tests[i].key
                  /\ rec.result = Strip(g.result_cell.text)
                  /\ rec.duration = Strip(g.duration_cell.text)
                  /\ rec.log = IF g.log_div.present THEN Strip(g.log_div.text) ELSE T_NoLog

\* C12's case: two complete groups with one identifier and different results,
\* and the one record, which is that of the second group.
C12_Witness ==
    /\ Extracted
    /\ Cardinality(CompleteGroups) = 2
    /\ Len(test_data.tests) = 1
    /\ Strip(Groups[1].result_cell.text) # Strip(Groups[2].result_cell.text)
    /\ test_data.tests[1].value[1].result = Strip(Groups[2].result_cell.text)

\* C13: a data-jsonblob that is valid JSON is left equivalent by
\* clean_json_string: parsing the cleaned text succeeds and gives the object
\* that parsing the blob itself gives, so the load goes on along the JSON path
C13_ValidJsonKept ==
    (Len(loaded) >= 1 /\ JsonLoads(data_jsonblob).ok) =>
        /\ loaded[1].exception = "none"
        /\ loaded[1].json_data = JsonLoads(data_jsonblob).val
        /\ pc = "json_path"

\* The loop of ensure_search_service_exists is running
InRetryLoop == pc = "ensure_search_service_exists"

\* C14, the states: the loop is in one of its max_retries attempts and no
\* attempt has succeeded yet; when ensure_search_service_exists raised, both
\* clients are unset; a client that is set was set with the other one, after an
\* attempt succeeded
C14_States ==
    /\ attempt \in 0..(max_retries - 1)
    /\ InRetryLoop => service = "unknown"
    /\ (pc = "failed" /\ raised = "ensure_search_service_exists") =>
           search_client = "None" /\ index_client = "None"
    /\ (search_client # "None" \/ index_client # "None") =>
           /\ search_client = "SearchClient" /\ index_client = "SearchIndexClient"
           /\ service \in {"exists", "created"}

\* C14, the steps: a successful attempt ends the loop at once; a failed attempt
\* is followed by the next one unless it was the last, and the last one raises
\* with the clients unset; the clients are set by the step that follows the
\* reading of the admin key
C14_Steps ==
    /\ (InRetryLoop /\ service' # "unknown") =>
           pc' = "admin_key" /\ attempt' = attempt /\ raised' = raised
    /\ (InRetryLoop /\ service' = "unknown") =>
           IF attempt = max_retries - 1
               THEN /\ pc' = "failed" /\ raised' = "ensure_search_service_exists"
                    /\ search_client' = "None" /\ index_client' = "None"
           ELSE attempt' = attempt + 1 /\ InRetryLoop'
    /\ (search_client' # search_client \/ index_client' # index_client) =>
           /\ pc = "admin_key" /\ pc' = "create_search_index"
           /\ service \in {"exists", "created"}

\* C14: ensure_search_service_exists terminates after at most max_retries
\* attempts: it stops at the first attempt that finds or creates the service, a
\* failed attempt is followed by another unless it was the last, the failure of
\* the last attempt propagates with search_client and index_client unset, and
\* the two clients are set only after an attempt succeeded and the admin key
\* was read
C14_RetriesTerminate ==
    /\ []C14_States
    /\ [][C14_Steps]_vars
    /\ (InRetryLoop ~> ~InRetryLoop)

\* The last attempt failed and execute re-raised
C14_Witness ==
    /\ pc = "failed"
    /\ raised = "ensure_search_service_exists"
    /\ attempt = max_retries - 1
    /\ service = "unknown"
    /\ search_client = "None"

\* execute() has not yet returned from create_search_index
BeforeIndexing ==
    pc \in {"setup_file_share", "extract_test_data", "ensure_search_service_exists",
            "admin_key", "create_search_index"}

\* C15 as stated: documents are uploaded only after get_index or create_index
\* succeeded, so a failed index creation prevents the upload
C15_UploadOnlyToKnownIndex ==
    /\ uploads # <<>> => index_known
    /\ BeforeIndexing => uploads = <<>>

\* C15 amended: documents are uploaded only after create_search_index returned,
\* which it does when get_index succeeded, when create_index succeeded, and
\* also when create_index raised an AzureError, which is printed as a warning
\* and dropped; only an exception of create_index that is not an AzureError
\* propagates and prevents the upload
C15_UploadOnlyAfterIndexStep ==
    /\ uploads # <<>> =>
           /\ index_known \/ index_warning
           /\ search_client = "SearchClient" /\ index_client = "SearchIndexClient"
    /\ BeforeIndexing => uploads = <<>>
    /\ (pc = "failed" /\ raised = "create_search_index") =>
           uploads = <<>> /\ documents = <<>> /\ ~index_known /\ ~index_warning

\* An upload after create_index raised an AzureError
C15_Witness ==
    /\ uploads # <<>>
    /\ index_warning
    /\ ~index_known
    /\ pc = "done"

====
